---- MODULE Spec2Model ----
(***************************************************************************)
(* Learning-analytics backend: assignment submission with MCQ auto-grading *)
(* (api/routes/assignments.py), teacher overrides and gradebook export     *)
(* (api/routes/gradebook.py), skill mastery (services/progress.py), the    *)
(* ranker's mastery map (services/recommendations.py) and the lazily       *)
(* loaded embedding model (services/embeddings.py).                        *)
(*                                                                         *)
(* Scores are exact rationals [n, d] in lowest terms and a null score is   *)
(* NoScore (d = 0); texts are sequences of one-character strings and a     *)
(* null text is NoText, which is falsy like the empty string.              *)
(***************************************************************************)
EXTENDS Integers, Sequences, FiniteSets, TLC

VARIABLES submissions, responses, last, questions, lessons, args,
          model, pc, constructed, calls, surfaced

dbvars == <<submissions, responses, last, questions, lessons, args>>
embvars == <<model, pc, constructed, calls, surfaced>>
vars == <<submissions, responses, last, questions, lessons, args,
          model, pc, constructed, calls, surfaced>>

\* Python None, per column type
NoScore == [n |-> 0, d |-> 0]
NoText == <<>>
NoBool == "None"
NoCount == 0
NoModel == 0
NoArgs == [call |-> "none"]

\* time in whole days; datetime.now() is day 0 and the past is negative
Now == 0

(* ---------------------------- bounds ----------------------------------- *)
MaxAnswers == 2
NumThreads == 2
MaxCalls == 2
MaxKeywords == 2
MaxLessons == 3
MaxPad == 9
MaxGroup == 4
MaxItems == 2

(* ------------------------- exact arithmetic ---------------------------- *)
RECURSIVE GCD(_, _)
GCD(a, b) == IF b = 0 THEN a ELSE GCD(b, a % b)

Abs(x) == IF x < 0 THEN -x ELSE x

Rat(n, d) ==
    LET g == GCD(Abs(n), Abs(d))
        s == IF d < 0 THEN -1 ELSE 1
    IN [n |-> (s * n) \div g, d |-> (s * d) \div g]

RatOfInt(k) == [n |-> k, d |-> 1]
RatAdd(a, b) == Rat(a.n * b.d + b.n * a.d, a.d * b.d)
RatSub(a, b) == Rat(a.n * b.d - b.n * a.d, a.d * b.d)
RatDivInt(a, k) == Rat(a.n, a.d * k)
RatLE(a, b) == a.n * b.d <= b.n * a.d
RatLT(a, b) == a.n * b.d < b.n * a.d
RatGE(a, b) == RatLE(b, a)

Zero == RatOfInt(0)
One == RatOfInt(1)

RECURSIVE RatSum(_)
RatSum(s) == IF s = <<>> THEN Zero ELSE RatAdd(Head(s), RatSum(Tail(s)))

\* Python sum(scores) / len(scores)
Mean(s) == RatDivInt(RatSum(s), Len(s))

\* Python round(x, 3): nearest multiple of 1/1000, ties to the even one
Round3(x) ==
    LET num == x.n * 1000
        q == num \div x.d
        r == num % x.d
        k == IF 2 * r > x.d THEN q + 1
             ELSE IF 2 * r < x.d THEN q
             ELSE IF q % 2 = 0 THEN q ELSE q + 1
    IN Rat(k, 1000)

(* ------------------------------ texts ---------------------------------- *)
DQ == "\""

\* json.dumps of a str: the text between double quotes
JsonDumps(s) == <<DQ>> \o s \o <<DQ>>

JsonError == <<"JSONDecodeError">>

\* json.loads restricted to string literals over the model's alphabet
JsonLoads(t) ==
    IF Len(t) >= 2 /\ t[1] = DQ /\ t[Len(t)] = DQ
    THEN SubSeq(t, 2, Len(t) - 1)
    ELSE JsonError

\* str.lower() on the model's alphabet
Lower(ch) == IF ch = "A" THEN "a" ELSE IF ch = "B" THEN "b" ELSE ch

StrLower(t) == [k \in 1..Len(t) |-> Lower(t[k])]

RECURSIVE LStrip(_)
LStrip(t) == IF t # <<>> /\ Head(t) = " " THEN LStrip(Tail(t)) ELSE t

RECURSIVE RStrip(_)
RStrip(t) ==
    IF t # <<>> /\ t[Len(t)] = " " THEN RStrip(SubSeq(t, 1, Len(t) - 1))
    ELSE t

\* str.strip()
Strip(t) == RStrip(LStrip(t))

\* Python `sub in t` on strings
Contains(sub, t) ==
    \E i \in 0..(Len(t) - Len(sub)) : SubSeq(t, i + 1, i + Len(sub)) = sub

(* --------------------------- fixed tables ------------------------------ *)
\* users 1 and 2 are students; teacher 3 owns class 1, teacher 4 class 2
Users == [u \in 1..4 |-> [role |-> IF u >= 3 THEN "teacher" ELSE "student"]]
Students == {u \in DOMAIN Users : Users[u].role = "student"}

Classes == [c \in 1..2 |-> [teacher_id |-> c + 2]]

\* student 1 is enrolled in class 1; student 2 is enrolled nowhere
Enrollments == {[user_id |-> 1, class_id |-> 1]}

\* assignment a belongs to class a
Assignments == [a \in 1..2 |-> [class_id |-> a]]

\* answer keys a question row may hold for question 1: written through
\* create_assignment (json.dumps), seeded raw (not JSON), or absent
KeyFixtures == {JsonDumps(<<"a">>), <<"a">>, NoText}

QuestionTable(key1) ==
    [q \in 1..3 |->
        CASE q = 1 -> [assignment_id |-> 1, type |-> "mcq",
                       prompt |-> <<"a">>,
                       answer_key |-> key1, skill_tags |-> <<"t1", "t2">>]
          [] q = 2 -> [assignment_id |-> 1, type |-> "short",
                       prompt |-> <<"b">>,
                       answer_key |-> NoText, skill_tags |-> <<"t1">>]
          [] q = 3 -> [assignment_id |-> 2, type |-> "short",
                       prompt |-> <<"a">>,
                       answer_key |-> JsonDumps(<<"a">>), skill_tags |-> <<"t2">>]]

\* answers a request may carry for a question
McqAnswers == {<<"a">>, <<" ", "A">>, <<"b">>}
ShortAnswers == {<<"a", "b">>}
AnswerTexts == McqAnswers \cup ShortAnswers

AnswerItems == [question_id : 1..3, answer : AnswerTexts]

\* teacher scores a request may carry; 101 fails validation
TeacherScores == {Rat(1, 2), RatOfInt(100)}
OverrideInputs == TeacherScores \cup {RatOfInt(101)}

ScoreMin == 0
ScoreMax == 100

(* ------------------------ submit_assignment ---------------------------- *)
Enrolled(u, c) == [user_id |-> u, class_id |-> c] \in Enrollments

ExistingSubmission(aid, u) ==
    \E i \in 1..Len(submissions) :
        submissions[i].assignment_id = aid /\ submissions[i].student_id = u

\* one iteration of the answer loop: the Response row and breakdown entry
GradeAnswer(sid, item) ==
    LET q == questions[item.question_id]
        base == [submission_id |-> sid, question_id |-> item.question_id,
                 student_answer |-> item.answer,
                 ai_score |-> NoScore, teacher_score |-> NoScore]
        unscored == [question_id |-> item.question_id,
                     is_correct |-> NoBool, score |-> NoScore]
        key == IF q.answer_key # <<>> THEN JsonLoads(q.answer_key) ELSE NoText
    IN IF q.type = "mcq"
       THEN IF key = JsonError \/ key = NoText
            THEN [response |-> base, entry |-> unscored, scored |-> FALSE]
            ELSE LET is_correct == item.answer = key
                     sc == IF is_correct THEN RatOfInt(100) ELSE Zero
                 IN [response |-> [base EXCEPT !.ai_score = sc],
                     entry |-> [question_id |-> item.question_id,
                                is_correct |-> IF is_correct THEN "True"
                                              ELSE "False",
                                score |-> sc],
                     scored |-> TRUE]
       ELSE [response |-> base, entry |-> unscored, scored |-> FALSE]

\* slip: the total divided by the number of answers, not of scored MCQs
SubmissionScore_AllAnswers(acc) ==
    IF acc.scored_questions > 0
    THEN RatDivInt(acc.total, Len(acc.rows))
    ELSE NoScore

\* the overall score written to the Submission row (lines 227-228)
SubmissionScore(acc) ==
    IF acc.scored_questions > 0
    THEN RatDivInt(acc.total, acc.scored_questions)
    ELSE NoScore

RECURSIVE GradeLoop(_, _, _, _)
GradeLoop(sid, answers, i, acc) ==
    IF i > Len(answers) THEN acc
    ELSE LET g == GradeAnswer(sid, answers[i])
         IN GradeLoop(sid, answers, i + 1,
               [total |-> IF g.scored
                          THEN RatAdd(acc.total, g.response.ai_score)
                          ELSE acc.total,
                scored_questions |-> acc.scored_questions
                                     + (IF g.scored THEN 1 ELSE 0),
                breakdown |-> Append(acc.breakdown, g.entry),
                rows |-> Append(acc.rows, g.response)])

\* position of the first answer naming a question outside the assignment
FirstBad(aid, answers) ==
    LET bad == {i \in 1..Len(answers) :
                  questions[answers[i].question_id].assignment_id # aid}
    IN IF bad = {} THEN 0 ELSE CHOOSE i \in bad : \A j \in bad : i <= j

\* the reply to a request: status, the HTTPException detail of a 400 and,
\* for an accepted submission, the SubmissionResponse body
Reject(status, detail) ==
    [op |-> "error", status |-> status,
     body |-> IF status = 400 THEN detail ELSE ""]

\* slip: an earlier submission is not looked for
SubmitAssignment_NoDuplicateCheck(user, aid, answers) ==
    /\ UNCHANGED <<questions, lessons, embvars>>
    /\ IF Users[user].role # "student"
       THEN /\ last' = Reject(403, "Only students can submit assignments")
            /\ UNCHANGED <<submissions, responses>>
       ELSE IF aid \notin DOMAIN Assignments
       THEN /\ last' = Reject(404, "Assignment not found")
            /\ UNCHANGED <<submissions, responses>>
       ELSE IF ~Enrolled(user, Assignments[aid].class_id)
       THEN /\ last' = Reject(403, "Access denied")
            /\ UNCHANGED <<submissions, responses>>
       ELSE LET sid == Len(submissions) + 1
                row == [assignment_id |-> aid, student_id |-> user,
                        submitted_at |-> Now,
                        ai_score |-> NoScore, teacher_score |-> NoScore,
                        ai_explanation |-> NoCount]
                acc == GradeLoop(sid, answers, 1,
                         [total |-> Zero, scored_questions |-> 0,
                          breakdown |-> <<>>, rows |-> <<>>])
                final == IF acc.scored_questions > 0
                         THEN [row EXCEPT
                                 !.ai_score = SubmissionScore(acc),
                                 !.ai_explanation = acc.scored_questions]
                         ELSE row
            IN IF FirstBad(aid, answers) # 0
               THEN \* the Submission row is committed before the loop;
                    \* the pending Response rows die with the session
                    /\ submissions' = Append(submissions, row)
                    /\ UNCHANGED responses
                    /\ last' = Reject(400, "Question not found in assignment")
               ELSE /\ submissions' = Append(submissions, final)
                    /\ responses' = responses \o acc.rows
                    /\ last' = [op |-> "submit", status |-> 200,
                                body |-> [submission_id |-> sid,
                                          ai_score |-> final.ai_score,
                                          breakdown |-> acc.breakdown]]

\* submit_assignment
SubmitAssignment(user, aid, answers) ==
    /\ UNCHANGED <<questions, lessons, embvars>>
    /\ IF Users[user].role # "student"
       THEN /\ last' = Reject(403, "Only students can submit assignments")
            /\ UNCHANGED <<submissions, responses>>
       ELSE IF aid \notin DOMAIN Assignments
       THEN /\ last' = Reject(404, "Assignment not found")
            /\ UNCHANGED <<submissions, responses>>
       ELSE IF ~Enrolled(user, Assignments[aid].class_id)
       THEN /\ last' = Reject(403, "Access denied")
            /\ UNCHANGED <<submissions, responses>>
       ELSE IF ExistingSubmission(aid, user)
       THEN /\ last' = Reject(400, "Assignment already submitted")
            /\ UNCHANGED <<submissions, responses>>
       ELSE LET sid == Len(submissions) + 1
                row == [assignment_id |-> aid, student_id |-> user,
                        submitted_at |-> Now,
                        ai_score |-> NoScore, teacher_score |-> NoScore,
                        ai_explanation |-> NoCount]
                acc == GradeLoop(sid, answers, 1,
                         [total |-> Zero, scored_questions |-> 0,
                          breakdown |-> <<>>, rows |-> <<>>])
                final == IF acc.scored_questions > 0
                         THEN [row EXCEPT
                                 !.ai_score = SubmissionScore(acc),
                                 !.ai_explanation = acc.scored_questions]
                         ELSE row
            IN IF FirstBad(aid, answers) # 0
               THEN \* the Submission row is committed before the loop;
                    \* the pending Response rows die with the session
                    /\ submissions' = Append(submissions, row)
                    /\ UNCHANGED responses
                    /\ last' = Reject(400, "Question not found in assignment")
               ELSE /\ submissions' = Append(submissions, final)
                    /\ responses' = responses \o acc.rows
                    /\ last' = [op |-> "submit", status |-> 200,
                                body |-> [submission_id |-> sid,
                                          ai_score |-> final.ai_score,
                                          breakdown |-> acc.breakdown]]

(* --------------------------- overrides --------------------------------- *)
\* ResponseOverrideRequest / SubmissionOverrideRequest: Field(ge=0, le=100)
ValidOverride(score) ==
    RatLE(RatOfInt(ScoreMin), score) /\ RatLE(score, RatOfInt(ScoreMax))

\* override_response_score commits the new teacher_score and then builds
\* its reply from response.matched_keywords, an attribute the Response
\* model (db/models.py) does not have: the write is kept and the request
\* ends with an internal error (500).

\* slip: the override is written over the automated score as well
OverrideResponseScore_Overwrite(user, rid, score) ==
    /\ UNCHANGED <<questions, lessons, embvars, submissions>>
    /\ IF ~ValidOverride(score)
       THEN /\ last' = Reject(422, "validation error")
            /\ UNCHANGED responses
       ELSE IF Users[user].role # "teacher"
       THEN /\ last' = Reject(403, "Only teachers can override scores")
            /\ UNCHANGED responses
       ELSE IF rid \notin 1..Len(responses)
       THEN /\ last' = Reject(404, "Response not found")
            /\ UNCHANGED responses
       ELSE IF Classes[Assignments[submissions[responses[rid].submission_id]
                           .assignment_id].class_id].teacher_id # user
       THEN /\ last' = Reject(403, "Access denied")
            /\ UNCHANGED responses
       ELSE /\ responses' = [responses EXCEPT ![rid].teacher_score = score,
                                              ![rid].ai_score = score]
            /\ last' = [op |-> "override_response", status |-> 500,
                        body |-> ""]

OverrideResponseScore(user, rid, score) ==
    /\ UNCHANGED <<questions, lessons, embvars, submissions>>
    /\ IF ~ValidOverride(score)
       THEN /\ last' = Reject(422, "validation error")
            /\ UNCHANGED responses
       ELSE IF Users[user].role # "teacher"
       THEN /\ last' = Reject(403, "Only teachers can override scores")
            /\ UNCHANGED responses
       ELSE IF rid \notin 1..Len(responses)
       THEN /\ last' = Reject(404, "Response not found")
            /\ UNCHANGED responses
       ELSE IF Classes[Assignments[submissions[responses[rid].submission_id]
                           .assignment_id].class_id].teacher_id # user
       THEN /\ last' = Reject(403, "Access denied")
            /\ UNCHANGED responses
       ELSE /\ responses' = [responses EXCEPT ![rid].teacher_score = score]
            /\ last' = [op |-> "override_response", status |-> 500,
                        body |-> ""]

OverrideSubmissionScore(user, sid, score) ==
    /\ UNCHANGED <<questions, lessons, embvars, responses>>
    /\ IF ~ValidOverride(score)
       THEN /\ last' = Reject(422, "validation error")
            /\ UNCHANGED submissions
       ELSE IF Users[user].role # "teacher"
       THEN /\ last' = Reject(403, "Only teachers can override scores")
            /\ UNCHANGED submissions
       ELSE IF sid \notin 1..Len(submissions)
       THEN /\ last' = Reject(404, "Submission not found")
            /\ UNCHANGED submissions
       ELSE IF Classes[Assignments[submissions[sid].assignment_id].class_id]
                  .teacher_id # user
       THEN /\ last' = Reject(403, "Access denied")
            /\ UNCHANGED submissions
       ELSE /\ submissions' = [submissions EXCEPT ![sid].teacher_score = score]
            /\ last' = [op |-> "override_submission", status |-> 200,
                        body |-> ""]

(* ------------------------ gradebook export ----------------------------- *)
\* export_gradebook_csv: one row per submission of the class, id order
ExportRow(subs, i) ==
    [submission_id |-> i,
     ai_score |-> subs[i].ai_score,
     teacher_score |-> subs[i].teacher_score,
     final_score |-> IF subs[i].teacher_score # NoScore
                     THEN subs[i].teacher_score
                     ELSE subs[i].ai_score]

ExportRowsOn(subs, class_id) ==
    LET ids == SelectSeq([i \in 1..Len(subs) |-> i],
                 LAMBDA i : Assignments[subs[i].assignment_id].class_id
                            = class_id)
    IN [k \in 1..Len(ids) |-> ExportRow(subs, ids[k])]

ExportGradebookCsv(class_id) == ExportRowsOn(submissions, class_id)

(* ------------------------- skill mastery ------------------------------- *)
\* slip: the automated score is consulted before the override
ResponseScore_AiFirst(r) ==
    IF questions[r.question_id].type = "mcq"
    THEN IF r.ai_score # NoScore
         THEN (IF RatGE(r.ai_score, One) THEN One ELSE Zero)
         ELSE IF r.teacher_score # NoScore
         THEN (IF RatGE(r.teacher_score, One) THEN One ELSE Zero)
         ELSE NoScore
    ELSE IF r.ai_score # NoScore THEN r.ai_score
         ELSE IF r.teacher_score # NoScore THEN r.teacher_score
         ELSE NoScore

\* progress.py: the score a response contributes (lines 55-67)
ResponseScore(r) ==
    IF questions[r.question_id].type = "mcq"
    THEN IF r.teacher_score # NoScore
         THEN (IF RatGE(r.teacher_score, One) THEN One ELSE Zero)
         ELSE IF r.ai_score # NoScore
         THEN (IF RatGE(r.ai_score, One) THEN One ELSE Zero)
         ELSE NoScore
    ELSE IF r.teacher_score # NoScore THEN r.teacher_score
         ELSE IF r.ai_score # NoScore THEN r.ai_score
         ELSE NoScore

\* the joined query: responses of the student's submissions whose question
\* belongs to an assignment of the class, in row order
StudentClassRows(resp, subs, class_id, student_id) ==
    SelectSeq([i \in 1..Len(resp) |-> i],
        LAMBDA i :
            /\ Assignments[questions[resp[i].question_id].assignment_id]
                  .class_id = class_id
            /\ subs[resp[i].submission_id].student_id = student_id)

\* the dicts appended to skill_data, one per (scored response, tag)
RECURSIVE SkillContributions(_, _, _)
SkillContributions(resp, ids, i) ==
    IF i > Len(ids) THEN <<>>
    ELSE LET r == resp[ids[i]]
             q == questions[r.question_id]
             sc == ResponseScore(r)
             mine == IF sc = NoScore THEN <<>>
                     ELSE [j \in 1..Len(q.skill_tags) |->
                             [tag |-> q.skill_tags[j], score |-> sc,
                              question_id |-> r.question_id,
                              question_type |-> q.type,
                              assignment_id |-> q.assignment_id]]
         IN mine \o SkillContributions(resp, ids, i + 1)

\* keys of skill_data in insertion order
RECURSIVE TagOrder(_, _)
TagOrder(contribs, seen) ==
    IF contribs = <<>> THEN <<>>
    ELSE IF Head(contribs).tag \in seen
    THEN TagOrder(Tail(contribs), seen)
    ELSE <<Head(contribs).tag>>
         \o TagOrder(Tail(contribs), seen \cup {Head(contribs).tag})

ScoresOf(contribs, tag) ==
    LET mine == SelectSeq(contribs, LAMBDA c : c.tag = tag)
    IN [k \in 1..Len(mine) |-> mine[k].score]

\* list.sort(key=mastery): stable insertion sort, ascending
RECURSIVE InsertByMastery(_, _)
InsertByMastery(sorted, e) ==
    IF sorted = <<>> THEN <<e>>
    ELSE IF RatLT(e.mastery, Head(sorted).mastery)
    THEN <<e>> \o sorted
    ELSE <<Head(sorted)>> \o InsertByMastery(Tail(sorted), e)

RECURSIVE SortByMastery(_, _)
SortByMastery(entries, i) ==
    IF i = 0 THEN <<>>
    ELSE InsertByMastery(SortByMastery(entries, i - 1), entries[i])

\* all_scores: the per-tag score lists, concatenated in dict order
RECURSIVE AllScores(_, _, _)
AllScores(contribs, tags, i) ==
    IF i > Len(tags) THEN <<>>
    ELSE ScoresOf(contribs, tags[i]) \o AllScores(contribs, tags, i + 1)

\* slip: the mean of the per-tag means
OverallMastery_MeanOfMeans(contribs, tags) ==
    IF tags # <<>>
    THEN Mean([k \in 1..Len(tags) |-> Mean(ScoresOf(contribs, tags[k]))])
    ELSE Zero

OverallMastery(contribs, tags) ==
    LET all_scores == AllScores(contribs, tags, 1)
    IN IF all_scores # <<>> THEN Mean(all_scores) ELSE Zero

TotalResponses(contribs, tags) == Len(AllScores(contribs, tags, 1))

SkillMasteryOn(resp, subs, class_id, student_id) ==
    LET ids == StudentClassRows(resp, subs, class_id, student_id)
        contribs == SkillContributions(resp, ids, 1)
        tags == TagOrder(contribs, {})
        entries == [k \in 1..Len(tags) |->
                      LET scores == ScoresOf(contribs, tags[k])
                      IN [tag |-> tags[k],
                          mastery |-> Round3(Mean(scores)),
                          samples |-> Len(scores),
                          responses |-> SelectSeq(contribs,
                                          LAMBDA c : c.tag = tags[k])]]
        skill_mastery == SortByMastery(entries, Len(entries))
    IN [skill_mastery |-> skill_mastery,
        overall_mastery_avg |-> Round3(OverallMastery(contribs, tags)),
        total_responses |-> TotalResponses(contribs, tags),
        skills_analyzed |-> Len(skill_mastery)]

GetStudentSkillMastery(class_id, student_id) ==
    SkillMasteryOn(responses, submissions, class_id, student_id)

(* --------------------- the ranker's mastery map ------------------------ *)
\* recommendations.py compute_skill_mastery: the (tag, score) pairs
RECURSIVE RankerContributions(_, _, _)
RankerContributions(resp, ids, i) ==
    IF i > Len(ids) THEN <<>>
    ELSE LET r == resp[ids[i]]
             q == questions[r.question_id]
             score == IF r.teacher_score # NoScore THEN r.teacher_score
                      ELSE r.ai_score
             mine == IF q.skill_tags = <<>> \/ score = NoScore THEN <<>>
                     ELSE [j \in 1..Len(q.skill_tags) |->
                             [tag |-> q.skill_tags[j],
                              score |-> RatDivInt(score, 100)]]
         IN mine \o RankerContributions(resp, ids, i + 1)

ComputeSkillMasteryOn(resp, subs, student_id) ==
    LET ids == SelectSeq([i \in 1..Len(resp) |-> i],
                 LAMBDA i : subs[resp[i].submission_id].student_id
                            = student_id)
        contribs == RankerContributions(resp, ids, 1)
        tags == {contribs[k].tag : k \in 1..Len(contribs)}
    IN [t \in tags |-> Mean(ScoresOf(contribs, t))]

ComputeSkillMastery(student_id) ==
    ComputeSkillMasteryOn(responses, submissions, student_id)

(* ------------------------- embedding vectors --------------------------- *)
\* An embedding is a pair of integers standing for the unit vector v / VecScale;
\* the zero vector is the embedding of blank text.
VecScale == 5
ZeroVec == <<0, 0>>
EmbedFail == <<>>

\* stand-in for SentenceTransformer.encode followed by the L2 normalisation:
\* a fixed text -> unit vector table keyed by the first character
Encode(text) ==
    LET c == Head(Strip(text))
    IN CASE c = "a" -> <<5, 0>>
         [] c = "A" -> <<4, 3>>
         [] c = "b" -> <<0, 5>>
         [] c = "B" -> <<-3, 4>>
         [] OTHER -> <<-5, 0>>

\* embed_text: blank (or None) text gives the zero vector; the call raises
\* when the model cannot be loaded or encode fails (up = FALSE)
EmbedText(text, up) ==
    IF ~up THEN EmbedFail
    ELSE IF text = <<>> \/ Strip(text) = <<>> THEN ZeroVec
    ELSE Encode(text)

\* np.dot(a, b) of the two unit vectors
Dot(a, b) == Rat(a[1] * b[1] + a[2] * b[2], VecScale * VecScale)

RatMin(a, b) == IF RatLT(b, a) THEN b ELSE a
RatMax(a, b) == IF RatLT(a, b) THEN b ELSE a

\* max(0.0, min(1.0, x))
Clip01(x) == RatMax(Zero, RatMin(One, x))

(* --------------------------- grading.py -------------------------------- *)
\* slip: the dot product is returned as it is
Cosine_Unclipped(a, b) ==
    IF Len(a) = 0 \/ Len(b) = 0 THEN Zero ELSE Dot(a, b)

Cosine(a, b) ==
    IF Len(a) = 0 \/ Len(b) = 0 THEN Zero ELSE Clip01(Dot(a, b))

\* the rubric keywords found in the answer, in rubric order, as given
MatchedKeywords(answer, keywords) ==
    SelectSeq(keywords,
              LAMBDA kw : Contains(StrLower(kw), StrLower(answer)))

KeywordCoverage(answer, keywords) ==
    IF answer = <<>> \/ keywords = <<>> THEN Zero
    ELSE Rat(Len(MatchedKeywords(answer, keywords)), Len(keywords))

RatScale(k, m, x) == Rat(k * x.n, m * x.d)

SimLevel(sim) ==
    IF RatGE(sim, Rat(8, 10)) THEN "high"
    ELSE IF RatGE(sim, Rat(6, 10)) THEN "medium"
    ELSE "low"

\* slip: the embedding calls are made outside the try block
ScoreShortAnswer_NoFallback(student_answer, model_answer, rubric_keywords, up, falcon) ==
    IF student_answer = <<>> \/ Strip(student_answer) = <<>>
    THEN [score |-> Zero, confidence |-> Zero,
          explanation |-> <<"No answer provided.">>,
          matched_keywords |-> <<>>,
          enhanced_feedback |-> "Please provide an answer to receive feedback."]
    ELSE IF ~up THEN [exception |-> "Exception"]
    ELSE LET sim == Cosine(EmbedText(student_answer, up),
                           EmbedText(model_answer, up))
             kw_score == KeywordCoverage(student_answer, rubric_keywords)
             matched == IF rubric_keywords # <<>>
                        THEN MatchedKeywords(student_answer, rubric_keywords)
                        ELSE <<>>
             final_score == Clip01(RatAdd(RatScale(7, 10, sim),
                                          RatScale(3, 10, kw_score)))
             confidence == RatDivInt(RatAdd(sim, kw_score), 2)
         IN [score |-> final_score, confidence |-> confidence,
             explanation |-> <<"Answer shows", SimLevel(sim), "similarity;",
                               IF matched # <<>> THEN "demonstrates"
                               ELSE "lacks">>,
             matched_keywords |-> matched,
             enhanced_feedback |-> IF falcon THEN "generated"
                                   ELSE "explanation"]

\* score_short_answer; up: the embedding calls succeed, falcon: the feedback
\* generator succeeds
ScoreShortAnswer(student_answer, model_answer, rubric_keywords, up, falcon) ==
    IF student_answer = <<>> \/ Strip(student_answer) = <<>>
    THEN [score |-> Zero, confidence |-> Zero,
          explanation |-> <<"No answer provided.">>,
          matched_keywords |-> <<>>,
          enhanced_feedback |-> "Please provide an answer to receive feedback."]
    ELSE LET sim == IF up
                    THEN Cosine(EmbedText(student_answer, up),
                                EmbedText(model_answer, up))
                    ELSE Zero
             kw_score == KeywordCoverage(student_answer, rubric_keywords)
             matched == IF rubric_keywords # <<>>
                        THEN MatchedKeywords(student_answer, rubric_keywords)
                        ELSE <<>>
             final_score == Clip01(RatAdd(RatScale(7, 10, sim),
                                          RatScale(3, 10, kw_score)))
             confidence == RatDivInt(RatAdd(sim, kw_score), 2)
         IN [score |-> final_score, confidence |-> confidence,
             explanation |-> <<"Answer shows", SimLevel(sim), "similarity;",
                               IF matched # <<>> THEN "demonstrates"
                               ELSE "lacks">>,
             matched_keywords |-> matched,
             enhanced_feedback |-> IF falcon THEN "generated"
                                   ELSE "explanation"]

(* ----------------------- recommendations.py --------------------------- *)
NoVec == <<>>

\* skill_mastery.get(tag, 0.0)
MasteryGet(skill_mastery, tag) ==
    IF tag \in DOMAIN skill_mastery THEN skill_mastery[tag] ELSE Zero

\* candidate_lessons: the ids of the class's lessons, in id order
CandidateLessons(class_id) ==
    SelectSeq([i \in 1..Len(lessons) |-> i],
              LAMBDA i : lessons[i].class_id = class_id)

\* the vector a lesson contributes in get_recent_lesson_embeddings: the
\* stored one, else embed_text(content), else zeros when that call raises
RecentVector(i, failing) ==
    IF lessons[i].embedding # NoVec THEN lessons[i].embedding
    ELSE IF i \in failing THEN ZeroVec
    ELSE EmbedText(lessons[i].content, TRUE)

RECURSIVE VecSum(_)
VecSum(vs) ==
    IF vs = <<>> THEN ZeroVec
    ELSE LET rest == VecSum(Tail(vs))
         IN <<Head(vs)[1] + rest[1], Head(vs)[2] + rest[2]>>

\* get_recent_lesson_embeddings: the n = 3 most recently created lessons of
\* the class (rows are created in id order); the mean is kept as the sum of
\* the vectors and their number
GetRecentLessonEmbeddings(class_id, failing) ==
    LET ids == CandidateLessons(class_id)
        n == IF Len(ids) < 3 THEN Len(ids) ELSE 3
        recent == [j \in 1..n |-> RecentVector(ids[Len(ids) + 1 - j], failing)]
    IN [sum |-> VecSum(recent), count |-> IF n = 0 THEN 1 ELSE n]

\* lines 179-191: the similarity of one lesson to the recent embedding
SimilarityScore(i, recent, failing) ==
    IF lessons[i].embedding = NoVec /\ i \in failing THEN Zero
    ELSE LET lesson_embedding ==
                 IF lessons[i].embedding # NoVec THEN lessons[i].embedding
                 ELSE EmbedText(lessons[i].content, TRUE)
         IN IF recent.sum = ZeroVec \/ lesson_embedding = ZeroVec THEN Zero
            ELSE Clip01(Rat(recent.sum[1] * lesson_embedding[1]
                              + recent.sum[2] * lesson_embedding[2],
                            recent.count * VecScale * VecScale))

\* slip: the mastery itself is averaged, so mastered lessons score high
SkillScore_Mastery(tags, skill_mastery) ==
    IF tags # <<>>
    THEN Mean([j \in 1..Len(tags) |-> MasteryGet(skill_mastery, tags[j])])
    ELSE Zero

\* lines 169-176: the mean of 1 - mastery over the lesson's tags
SkillScore(tags, skill_mastery) ==
    IF tags # <<>>
    THEN Mean([j \in 1..Len(tags) |->
                  RatSub(One, MasteryGet(skill_mastery, tags[j]))])
    ELSE Zero

\* lines 196-210: the dict appended to lesson_scores
LessonScore(i, skill_mastery, recent, failing) ==
    LET tags == lessons[i].skill_tags
        weakest == SelectSeq(tags, LAMBDA t :
                      RatLT(MasteryGet(skill_mastery, t), Rat(7, 10)))
        shown == IF weakest # <<>> THEN weakest ELSE tags
    IN [lesson_id |-> i,
        reason |-> [struggled |-> weakest # <<>>,
                    tags |-> SubSeq(shown, 1, IF Len(shown) < 2
                                              THEN Len(shown) ELSE 2)],
        score |-> RatAdd(RatScale(6, 10, SkillScore(tags, skill_mastery)),
                         RatScale(4, 10, SimilarityScore(i, recent, failing))),
        skill_tags |-> tags,
        skill_mastery |-> [t \in {tags[j] : j \in 1..Len(tags)} |->
                             MasteryGet(skill_mastery, t)]]

\* slip: ascending order
RECURSIVE InsertByScore_Ascending(_, _)
InsertByScore_Ascending(sorted, e) ==
    IF sorted = <<>> THEN <<e>>
    ELSE IF RatLT(e.score, Head(sorted).score)
    THEN <<e>> \o sorted
    ELSE <<Head(sorted)>> \o InsertByScore_Ascending(Tail(sorted), e)

\* list.sort(key=score, reverse=True): stable, highest score first
RECURSIVE InsertByScore(_, _)
InsertByScore(sorted, e) ==
    IF sorted = <<>> THEN <<e>>
    ELSE IF RatLT(Head(sorted).score, e.score)
    THEN <<e>> \o sorted
    ELSE <<Head(sorted)>> \o InsertByScore(Tail(sorted), e)

RECURSIVE SortByScore(_, _)
SortByScore(entries, i) ==
    IF i = 0 THEN <<>>
    ELSE InsertByScore(SortByScore(entries, i - 1), entries[i])

\* rank_lessons_for_student; failing: the lessons whose content embed_text
\* cannot embed during this request
RankLessonsForStudent(student_id, class_id, k, failing) ==
    LET skill_mastery == ComputeSkillMastery(student_id)
        candidates == CandidateLessons(class_id)
        recent == GetRecentLessonEmbeddings(class_id, failing)
        tagged == SelectSeq(candidates,
                            LAMBDA i : lessons[i].skill_tags # <<>>)
        lesson_scores == [j \in 1..Len(tagged) |->
                            LessonScore(tagged[j], skill_mastery, recent,
                                        failing)]
        ranked == SortByScore(lesson_scores, Len(lesson_scores))
    IN IF candidates = <<>> THEN <<>>
       ELSE SubSeq(ranked, 1, IF Len(ranked) < k THEN Len(ranked) ELSE k)

\* get_student_recommendations
GetStudentRecommendations(student_id, class_id, k, failing) ==
    IF ~Enrolled(student_id, class_id)
    THEN [error |-> "Student not enrolled in this class",
          recommendations |-> <<>>]
    ELSE [student_id |-> student_id,
          class_id |-> class_id,
          skill_mastery |-> ComputeSkillMastery(student_id),
          recommendations |-> RankLessonsForStudent(student_id, class_id, k,
                                                    failing),
          total_lessons_available |-> Len(CandidateLessons(class_id))]

(* --------------------- routes/recommendations.py ----------------------- *)
\* slip: an embedding generated for a lesson is written to its row
GetRecommendations_StoresEmbeddings(user, class_id, student_id, k, failing) ==
    LET target == IF student_id # 0 THEN student_id ELSE user
        data == GetStudentRecommendations(target, class_id, k, failing)
    IN /\ args' = [call |-> "get_recommendations", user |-> user,
                   class_id |-> class_id, student_id |-> student_id,
                   k |-> k]
       /\ UNCHANGED <<submissions, responses, questions, embvars>>
       /\ lessons' = [i \in DOMAIN lessons |->
                         IF /\ lessons[i].class_id = class_id
                            /\ lessons[i].embedding = NoVec
                            /\ i \notin failing
                         THEN [lessons[i] EXCEPT
                                 !.embedding = EmbedText(lessons[i].content,
                                                         TRUE)]
                         ELSE lessons[i]]
       /\ IF k < 1 \/ k > 10
          THEN last' = Reject(422, "validation error")
          ELSE IF class_id \notin DOMAIN Classes
          THEN last' = Reject(404, "Class not found")
          ELSE IF Users[user].role = "student" /\ target # user
          THEN last' = Reject(403, "Students can only view their own")
          ELSE IF Users[user].role = "student" /\ ~Enrolled(user, class_id)
          THEN last' = Reject(403, "You are not enrolled in this class")
          ELSE IF Users[user].role = "teacher"
                  /\ Classes[class_id].teacher_id # user
          THEN last' = Reject(403, "You can only view your own classes")
          ELSE IF Users[user].role = "teacher" /\ ~Enrolled(target, class_id)
          THEN last' = Reject(404, "Student not found in this class")
          ELSE IF Users[user].role \notin {"student", "teacher"}
          THEN last' = Reject(403, "Invalid user role")
          ELSE IF target \notin DOMAIN Users
          THEN last' = Reject(404, "Student not found")
          ELSE last' = [op |-> "recommend", status |-> 200,
                        body |-> [data |-> data,
                                  requested_by |-> user,
                                  target_student |-> target]]

\* slip: the route leaves the enrollment checks to the service
GetRecommendations_NoEnrollmentCheck(user, class_id, student_id, k, failing) ==
    LET target == IF student_id # 0 THEN student_id ELSE user
        data == GetStudentRecommendations(target, class_id, k, failing)
    IN /\ args' = [call |-> "get_recommendations", user |-> user,
                   class_id |-> class_id, student_id |-> student_id,
                   k |-> k]
       /\ UNCHANGED <<submissions, responses, questions, lessons, embvars>>
       /\ IF k < 1 \/ k > 10
          THEN last' = Reject(422, "validation error")
          ELSE IF class_id \notin DOMAIN Classes
          THEN last' = Reject(404, "Class not found")
          ELSE IF Users[user].role = "student" /\ target # user
          THEN last' = Reject(403, "Students can only view their own")
          ELSE IF Users[user].role = "teacher"
                  /\ Classes[class_id].teacher_id # user
          THEN last' = Reject(403, "You can only view your own classes")
          ELSE IF Users[user].role \notin {"student", "teacher"}
          THEN last' = Reject(403, "Invalid user role")
          ELSE IF target \notin DOMAIN Users
          THEN last' = Reject(404, "Student not found")
          ELSE last' = [op |-> "recommend", status |-> 200,
                        body |-> [data |-> data,
                                  requested_by |-> user,
                                  target_student |-> target]]

\* get_recommendations; student_id 0 is the absent query parameter
GetRecommendations(user, class_id, student_id, k, failing) ==
    LET target == IF student_id # 0 THEN student_id ELSE user
        data == GetStudentRecommendations(target, class_id, k, failing)
    IN /\ args' = [call |-> "get_recommendations", user |-> user,
                   class_id |-> class_id, student_id |-> student_id,
                   k |-> k]
       /\ UNCHANGED <<submissions, responses, questions, lessons, embvars>>
       /\ IF k < 1 \/ k > 10
          THEN last' = Reject(422, "validation error")
          ELSE IF class_id \notin DOMAIN Classes
          THEN last' = Reject(404, "Class not found")
          ELSE IF Users[user].role = "student" /\ target # user
          THEN last' = Reject(403, "Students can only view their own")
          ELSE IF Users[user].role = "student" /\ ~Enrolled(user, class_id)
          THEN last' = Reject(403, "You are not enrolled in this class")
          ELSE IF Users[user].role = "teacher"
                  /\ Classes[class_id].teacher_id # user
          THEN last' = Reject(403, "You can only view your own classes")
          ELSE IF Users[user].role = "teacher" /\ ~Enrolled(target, class_id)
          THEN last' = Reject(404, "Student not found in this class")
          ELSE IF Users[user].role \notin {"student", "teacher"}
          THEN last' = Reject(403, "Invalid user role")
          ELSE IF target \notin DOMAIN Users
          THEN last' = Reject(404, "Student not found")
          ELSE last' = [op |-> "recommend", status |-> 200,
                        body |-> [data |-> data,
                                  requested_by |-> user,
                                  target_student |-> target]]

(* --------------------------- insights.py ------------------------------- *)
\* settings.SHORT_ANSWER_PASS_THRESHOLD (default "0.7")
ShortAnswerPassThreshold == Rat(7, 10)

\* get_time_window: anything but "month" is taken as a week
GetTimeWindow(period) ==
    [start |-> IF period = "month" THEN Now - 30 ELSE Now - 7,
     end |-> Now]

\* teacher_score if it is not None, else ai_score
EffectiveScore(r) ==
    IF r.teacher_score # NoScore THEN r.teacher_score ELSE r.ai_score

\* slip: the automated score is read first
IncludeResponse_AiFirst(r) ==
    LET score == IF r.ai_score # NoScore THEN r.ai_score
                 ELSE r.teacher_score
    IN IF questions[r.question_id].type = "mcq"
       THEN score # NoScore /\ RatLT(score, One)
       ELSE score # NoScore /\ RatLT(score, ShortAnswerPassThreshold)

\* lines 70-83: include_response
IncludeResponse(r) ==
    LET score == EffectiveScore(r)
    IN IF questions[r.question_id].type = "mcq"
       THEN score # NoScore /\ RatLT(score, One)
       ELSE score # NoScore /\ RatLT(score, ShortAnswerPassThreshold)

\* lines 56-66: the joined rows of the class inside the time window
WindowRows(class_id, period) ==
    LET w == GetTimeWindow(period)
    IN SelectSeq([i \in 1..Len(responses) |-> i],
         LAMBDA i :
            LET sub == submissions[responses[i].submission_id]
            IN /\ Assignments[questions[responses[i].question_id]
                                 .assignment_id].class_id = class_id
               /\ sub.submitted_at >= w.start
               /\ sub.submitted_at <= w.end)

\* lines 86-105: the dict appended for an included response
ResponseData(i) ==
    LET r == responses[i]
        q == questions[r.question_id]
        quoted == /\ q.type = "mcq"
                  /\ Len(r.student_answer) >= 1
                  /\ Head(r.student_answer) = DQ
                  /\ r.student_answer[Len(r.student_answer)] = DQ
        parsed == IF quoted THEN JsonLoads(r.student_answer) ELSE JsonError
    IN [response_id |-> i,
        question_id |-> r.question_id,
        assignment_id |-> q.assignment_id,
        student_answer |-> IF quoted /\ parsed # JsonError THEN parsed
                           ELSE r.student_answer,
        question_type |-> q.type,
        question_prompt |-> q.prompt,
        skill_tags |-> q.skill_tags,
        score |-> EffectiveScore(r)]

GetLowScoringResponses(class_id, period) ==
    LET rows == WindowRows(class_id, period)
        kept == SelectSeq(rows, LAMBDA i : IncludeResponse(responses[i]))
    IN [j \in 1..Len(kept) |-> ResponseData(kept[j])]

\* prepare_text_for_embedding; <<" ", "W", ":", " ">> is " Wrong answer: "
PrepareTextForEmbedding(rd) ==
    IF rd.question_type = "mcq"
    THEN rd.question_prompt \o <<" ", "W", ":", " ">> \o rd.student_answer
    ELSE rd.student_answer

\* text.split() after punctuation has become blanks
RECURSIVE SplitWords(_, _)
SplitWords(t, cur) ==
    IF t = <<>> THEN (IF cur = <<>> THEN <<>> ELSE <<cur>>)
    ELSE IF Head(t) \in {" ", ":", DQ}
    THEN (IF cur = <<>> THEN <<>> ELSE <<cur>>) \o SplitWords(Tail(t), <<>>)
    ELSE SplitWords(Tail(t), Append(cur, Lower(Head(t))))

\* the distinct items of a list in order of first occurrence
RECURSIVE FirstOccurrences(_, _)
FirstOccurrences(items, seen) ==
    IF items = <<>> THEN <<>>
    ELSE IF Head(items) \in seen THEN FirstOccurrences(Tail(items), seen)
    ELSE <<Head(items)>>
         \o FirstOccurrences(Tail(items), seen \cup {Head(items)})

CountOf(items, x) == Len(SelectSeq(items, LAMBDA y : y = x))

\* stable insertion into a list ordered by decreasing count
RECURSIVE InsertByCount(_, _, _)
InsertByCount(sorted, x, items) ==
    IF sorted = <<>> THEN <<x>>
    ELSE IF CountOf(items, Head(sorted)) < CountOf(items, x)
    THEN <<x>> \o sorted
    ELSE <<Head(sorted)>> \o InsertByCount(Tail(sorted), x, items)

RECURSIVE SortByCount(_, _, _)
SortByCount(keys, i, items) ==
    IF i = 0 THEN <<>>
    ELSE InsertByCount(SortByCount(keys, i - 1, items), keys[i], items)

\* [x for x, count in Counter(items).most_common(n)]
MostCommon(items, n) ==
    LET keys == FirstOccurrences(items, {})
        ranked == SortByCount(keys, Len(keys), items)
    IN SubSeq(ranked, 1, IF Len(ranked) < n THEN Len(ranked) ELSE n)

\* the stop words that can be written in the model's alphabet
StopWords == {<<"a">>, <<"b", "e">>}

\* extract_keywords
ExtractKeywords(text, top_k) ==
    IF text = <<>> \/ Len(Strip(text)) < 3 THEN <<>>
    ELSE LET words == SplitWords(text, <<>>)
             filtered_words == SelectSeq(words, LAMBDA w :
                                  Len(w) > 2 /\ w \notin StopWords)
         IN MostCommon(filtered_words, top_k)

\* ' '.join(texts)
RECURSIVE JoinTexts(_)
JoinTexts(texts) ==
    IF texts = <<>> THEN <<>>
    ELSE IF Len(texts) = 1 THEN Head(texts)
    ELSE Head(texts) \o <<" ">> \o JoinTexts(Tail(texts))

RECURSIVE Flatten(_)
Flatten(lists) ==
    IF lists = <<>> THEN <<>> ELSE Head(lists) \o Flatten(Tail(lists))

(* ------------------- insights.py: clustering --------------------------- *)
\* slip: always one cluster
NClusters_Single(n) == 1

\* min(3, max(1, n // 3))
NClusters(n) ==
    LET third == n \div 3
        atleast1 == IF third < 1 THEN 1 ELSE third
    IN IF atleast1 > 3 THEN 3 ELSE atleast1

\* the members of cluster c under labelling f (vector -> label)
ClusterVectors(vectors, f, c) == SelectSeq(vectors, LAMBDA v : f[v] = c)

\* squared distance of v to the centroid of cluster c, times the square of
\* the cluster's size
Dist2Scaled(vectors, f, v, c) ==
    LET mem == ClusterVectors(vectors, f, c)
        sum == VecSum(mem)
        n == Len(mem)
    IN (n * v[1] - sum[1]) * (n * v[1] - sum[1])
       + (n * v[2] - sum[2]) * (n * v[2] - sum[2])

\* KMeans(n_clusters=k, random_state=42, n_init=10).fit_predict(vectors):
\* a labelling with min(k, number of distinct points) non-empty clusters in
\* which every point is at least as near to its own centroid as to any
\* other (equal points share a label). Which of these sklearn returns, and
\* how it numbers the clusters, is left open.
KMeansLabelings(vectors, k) ==
    LET D == {vectors[j] : j \in 1..Len(vectors)}
        kk == IF Cardinality(D) < k THEN Cardinality(D) ELSE k
    IN {f \in [D -> 0..(k - 1)] :
          LET used == {f[v] : v \in D}
          IN /\ Cardinality(used) = kk
             /\ \A v \in D, c \in used :
                   LET own == Len(ClusterVectors(vectors, f, f[v]))
                       oth == Len(ClusterVectors(vectors, f, c))
                   IN Dist2Scaled(vectors, f, v, f[v]) * oth * oth
                        <= Dist2Scaled(vectors, f, v, c) * own * own}

\* an exception leaving cluster_responses / get_misconception_insights, as
\* a value in place of the cluster list / the result dict
Raised == <<[exception |-> "Exception"]>>
RaisedResult == [exception |-> "Exception"]

\* slip: the size reported is the number of examples shown
ClusterResult_ExamplesCounted(cluster_id, members) ==
    LET examples == SubSeq(members, 1, IF Len(members) < 2 THEN Len(members)
                                       ELSE 2)
        all_text == JoinTexts([j \in 1..Len(members) |->
                                 members[j].student_answer])
        common_keywords == ExtractKeywords(all_text, 3)
        all_skill_tags == Flatten([j \in 1..Len(members) |->
                                     members[j].skill_tags])
    IN [label |-> IF common_keywords # <<>>
                  THEN [words |-> SubSeq(common_keywords, 1,
                                     IF Len(common_keywords) < 2
                                     THEN Len(common_keywords) ELSE 2),
                        number |-> 0]
                  ELSE [words |-> <<>>, number |-> cluster_id + 1],
        examples |-> [j \in 1..Len(examples) |->
                        [student_answer |-> examples[j].student_answer,
                         question_prompt |-> examples[j].question_prompt,
                         score |-> examples[j].score]],
        suggested_skill_tags |-> MostCommon(all_skill_tags, 3),
        cluster_size |-> Len(examples),
        common_keywords |-> common_keywords]

\* lines 225-266: the dict built for one cluster
ClusterResult(cluster_id, members) ==
    LET examples == SubSeq(members, 1, IF Len(members) < 2 THEN Len(members)
                                       ELSE 2)
        all_text == JoinTexts([j \in 1..Len(members) |->
                                 members[j].student_answer])
        common_keywords == ExtractKeywords(all_text, 3)
        all_skill_tags == Flatten([j \in 1..Len(members) |->
                                     members[j].skill_tags])
    IN [label |-> IF common_keywords # <<>>
                  THEN [words |-> SubSeq(common_keywords, 1,
                                     IF Len(common_keywords) < 2
                                     THEN Len(common_keywords) ELSE 2),
                        number |-> 0]
                  ELSE [words |-> <<>>, number |-> cluster_id + 1],
        examples |-> [j \in 1..Len(examples) |->
                        [student_answer |-> examples[j].student_answer,
                         question_prompt |-> examples[j].question_prompt,
                         score |-> examples[j].score]],
        suggested_skill_tags |-> MostCommon(all_skill_tags, 3),
        cluster_size |-> Len(members),
        common_keywords |-> common_keywords]

\* the responses embed_text could embed, in order (lines 192-201)
ValidResponses(rds, failing) ==
    SelectSeq(rds, LAMBDA rd : rd.response_id \notin failing)

EmbeddingsOf(valid) ==
    [j \in 1..Len(valid) |->
        EmbedText(PrepareTextForEmbedding(valid[j]), TRUE)]

\* slip: a failing k-means step is not caught
ClusterResponses_KMeansRaises(rds, failing, kmeans_ok, f) ==
    LET valid == ValidResponses(rds, failing)
        embeddings == EmbeddingsOf(valid)
        labels == [j \in 1..Len(valid) |-> f[embeddings[j]]]
        ids == FirstOccurrences(labels, {})
    IN IF Len(rds) < 3 THEN <<>>
       ELSE IF Len(embeddings) < 3 THEN <<>>
       ELSE IF ~kmeans_ok THEN Raised
       ELSE [c \in 1..Len(ids) |->
               ClusterResult(ids[c],
                   SelectSeq(valid, LAMBDA rd :
                       f[EmbedText(PrepareTextForEmbedding(rd), TRUE)]
                          = ids[c]))]

\* cluster_responses; failing: the responses whose text embed_text cannot
\* embed, kmeans_ok: fit_predict returns, f: the labelling it returns
ClusterResponses(rds, failing, kmeans_ok, f) ==
    LET valid == ValidResponses(rds, failing)
        embeddings == EmbeddingsOf(valid)
        labels == [j \in 1..Len(valid) |-> f[embeddings[j]]]
        ids == FirstOccurrences(labels, {})
    IN IF Len(rds) < 3 THEN <<>>
       ELSE IF Len(embeddings) < 3 THEN <<>>
       ELSE IF ~kmeans_ok THEN <<>>
       ELSE [c \in 1..Len(ids) |->
               ClusterResult(ids[c],
                   SelectSeq(valid, LAMBDA rd :
                       f[EmbedText(PrepareTextForEmbedding(rd), TRUE)]
                          = ids[c]))]

\* the labellings fit_predict may return for a request, <<>> standing for
\* none when the k-means step is not reached
LabelChoices(class_id, period, failing) ==
    LET rds == GetLowScoringResponses(class_id, period)
        embeddings == EmbeddingsOf(ValidResponses(rds, failing))
    IN IF Len(rds) < 3 \/ Len(embeddings) < 3 THEN {<<>>}
       ELSE KMeansLabelings(embeddings, NClusters(Len(embeddings)))

\* slip: the short list is handed to the clustering step like any other
GetMisconceptionInsights_NoShortcut(class_id, period, failing, kmeans_ok, f) ==
    LET low_scoring_responses == GetLowScoringResponses(class_id, period)
        clusters == ClusterResponses(low_scoring_responses, failing,
                                     kmeans_ok, f)
    IN IF clusters = Raised THEN RaisedResult
       ELSE [class_id |-> class_id, period |-> period,
             time_window |-> GetTimeWindow(period),
             total_items |-> Len(low_scoring_responses),
             clusters |-> clusters,
             analysis_summary |->
                 [total_clusters |-> Len(clusters),
                  threshold_used |-> ShortAnswerPassThreshold]]

\* get_misconception_insights
GetMisconceptionInsights(class_id, period, failing, kmeans_ok, f) ==
    LET low_scoring_responses == GetLowScoringResponses(class_id, period)
        clusters == ClusterResponses(low_scoring_responses, failing,
                                     kmeans_ok, f)
    IN IF Len(low_scoring_responses) < 3
       THEN [class_id |-> class_id, period |-> period,
             time_window |-> GetTimeWindow(period),
             total_items |-> Len(low_scoring_responses),
             clusters |-> <<>>,
             message |-> "Not enough data for misconception analysis. Need at least 3 low-scoring responses."]
       ELSE IF clusters = Raised THEN RaisedResult
       ELSE [class_id |-> class_id, period |-> period,
             time_window |-> GetTimeWindow(period),
             total_items |-> Len(low_scoring_responses),
             clusters |-> clusters,
             analysis_summary |->
                 [total_clusters |-> Len(clusters),
                  threshold_used |-> ShortAnswerPassThreshold]]

(* ------------------------ routes/insights.py --------------------------- *)
\* slip: the period is not validated
GetMisconceptionInsightsApi_AnyPeriod(user, class_id, period, failing, kmeans_ok, f) ==
    LET insights == GetMisconceptionInsights(class_id, period, failing,
                                             kmeans_ok, f)
    IN /\ args' = [call |-> "get_misconception_insights", user |-> user,
                   class_id |-> class_id, period |-> period,
                   failing |-> failing, kmeans_ok |-> kmeans_ok]
       /\ UNCHANGED <<submissions, responses, questions, lessons, embvars>>
       /\ IF Users[user].role # "teacher"
          THEN last' = Reject(403, "Only teachers can access misconception insights")
          ELSE IF class_id \notin DOMAIN Classes
                  \/ Classes[class_id].teacher_id # user
          THEN last' = Reject(404, "Class not found or access denied")
          ELSE IF "exception" \in DOMAIN insights
          THEN last' = Reject(500, "Error generating misconception insights")
          ELSE last' = [op |-> "insights", status |-> 200,
                        body |-> [insights |-> insights,
                                  requested_by |-> user]]

\* get_misconception_insights_api
GetMisconceptionInsightsApi(user, class_id, period, failing, kmeans_ok, f) ==
    LET insights == GetMisconceptionInsights(class_id, period, failing,
                                             kmeans_ok, f)
    IN /\ args' = [call |-> "get_misconception_insights", user |-> user,
                   class_id |-> class_id, period |-> period,
                   failing |-> failing, kmeans_ok |-> kmeans_ok]
       /\ UNCHANGED <<submissions, responses, questions, lessons, embvars>>
       /\ IF Users[user].role # "teacher"
          THEN last' = Reject(403, "Only teachers can access misconception insights")
          ELSE IF class_id \notin DOMAIN Classes
                  \/ Classes[class_id].teacher_id # user
          THEN last' = Reject(404, "Class not found or access denied")
          ELSE IF period \notin {"week", "month"}
          THEN last' = Reject(422, "Period must be 'week' or 'month'")
          ELSE IF "exception" \in DOMAIN insights
          THEN last' = Reject(500, "Error generating misconception insights")
          ELSE last' = [op |-> "insights", status |-> 200,
                        body |-> [insights |-> insights,
                                  requested_by |-> user]]

(* ---------------------- embedding model (lazy) ------------------------- *)
\* the exceptions the library's constructor and encode may raise
LibraryExceptions == {"OSError", "RuntimeError"}

\* no exception has reached the caller
NoException == [exception |-> "none", raised_by |-> "none"]

\* embed_text is entered by a caller thread
EmbedCall(t) ==
    /\ pc[t] \in {"idle", "done", "raised"}
    /\ calls[t] < MaxCalls
    /\ calls' = [calls EXCEPT ![t] = @ + 1]
    /\ pc' = [pc EXCEPT ![t] = "check"]
    /\ surfaced' = [surfaced EXCEPT ![t] = NoException]
    /\ UNCHANGED <<model, constructed, dbvars>>

\* _get_model: the test `_model is None`
GetModelCheck(t) ==
    /\ pc[t] = "check"
    /\ pc' = [pc EXCEPT ![t] = IF model = NoModel THEN "construct"
                                ELSE "encode"]
    /\ UNCHANGED <<model, constructed, calls, surfaced, dbvars>>

\* _get_model: `_model = SentenceTransformer(model_name)` succeeds
GetModelConstruct(t) ==
    /\ pc[t] = "construct"
    /\ constructed' = constructed + 1
    /\ model' = constructed + 1
    /\ pc' = [pc EXCEPT ![t] = "encode"]
    /\ UNCHANGED <<calls, surfaced, dbvars>>

\* _get_model: the constructor raises; nothing is stored, and neither
\* _get_model, _embed_text_cached nor embed_text catches the exception
GetModelFail(t) ==
    /\ pc[t] = "construct"
    /\ pc' = [pc EXCEPT ![t] = "raised"]
    /\ \E e \in LibraryExceptions :
          surfaced' = [surfaced EXCEPT
                          ![t] = [exception |-> e,
                                  raised_by |-> "SentenceTransformer"]]
    /\ UNCHANGED <<model, constructed, calls, dbvars>>

\* model.encode(...) raises; the exception leaves embed_text as it is
EncodeFail(t) ==
    /\ pc[t] = "encode"
    /\ pc' = [pc EXCEPT ![t] = "raised"]
    /\ \E e \in LibraryExceptions :
          surfaced' = [surfaced EXCEPT
                          ![t] = [exception |-> e, raised_by |-> "encode"]]
    /\ UNCHANGED <<model, constructed, calls, dbvars>>

\* model.encode(...) and the return to the caller
EmbedReturn(t) ==
    /\ pc[t] = "encode"
    /\ pc' = [pc EXCEPT ![t] = "done"]
    /\ UNCHANGED <<model, constructed, calls, surfaced, dbvars>>

(* ------------------------- specification ------------------------------- *)
RECURSIVE SeqsUpTo(_, _)
SeqsUpTo(S, k) ==
    IF k = 0 THEN {<<>>}
    ELSE LET shorter == SeqsUpTo(S, k - 1)
         IN shorter \cup {Append(s, x) : s \in {t \in shorter : Len(t) = k - 1},
                                         x \in S}

\* a request carries answers whose text fits the question's type
WellTyped(item) ==
    IF questions[item.question_id].type = "mcq"
    THEN item.answer \in McqAnswers
    ELSE item.answer \in ShortAnswers

AnswerLists == SeqsUpTo({it \in AnswerItems : WellTyped(it)}, MaxAnswers)

\* requests the handler turns down before it reads the answers
RejectedEarly(user, aid) ==
    \/ Users[user].role # "student"
    \/ aid \notin DOMAIN Assignments
    \/ ~Enrolled(user, Assignments[aid].class_id)
    \/ ExistingSubmission(aid, user)

InitEmb ==
    /\ model = NoModel
    /\ pc = [t \in 1..NumThreads |-> "idle"]
    /\ constructed = 0
    /\ calls = [t \in 1..NumThreads |-> 0]
    /\ surfaced = [t \in 1..NumThreads |-> NoException]

Init ==
    /\ submissions = <<>>
    /\ responses = <<>>
    /\ last = [op |-> "none", status |-> 0, body |-> ""]
    /\ questions \in {QuestionTable(k) : k \in KeyFixtures}
    /\ lessons = <<>>
    /\ args = NoArgs
    /\ InitEmb

Submit ==
    /\ \E user \in DOMAIN Users, aid \in 1..3 :
          \E answers \in (IF RejectedEarly(user, aid) THEN {<<>>}
                          ELSE AnswerLists) :
              SubmitAssignment(user, aid, answers)
    /\ UNCHANGED args

OverrideResponse ==
    /\ \E user \in DOMAIN Users, rid \in 1..(Len(responses) + 1),
          score \in OverrideInputs :
           OverrideResponseScore(user, rid, score)
    /\ UNCHANGED args

OverrideSubmission ==
    /\ \E user \in DOMAIN Users, sid \in 1..(Len(submissions) + 1),
          score \in OverrideInputs :
           OverrideSubmissionScore(user, sid, score)
    /\ UNCHANGED args

NextEmbed ==
    \E t \in 1..NumThreads :
        \/ EmbedCall(t)
        \/ GetModelCheck(t)
        \/ GetModelConstruct(t)
        \/ GetModelFail(t)
        \/ EncodeFail(t)
        \/ EmbedReturn(t)

SpecEmbed == Init /\ [][NextEmbed]_vars

Next == Submit \/ OverrideResponse \/ OverrideSubmission

Spec == Init /\ [][Next]_vars

(* ------------------- specification: the scorer ------------------------- *)
\* arguments a caller may pass to score_short_answer
StudentAnswers == {NoText, <<" ">>, <<"a">>, <<"A", "b">>,
                   <<"b", " ", "a">>, <<"B">>}
ModelAnswers == {NoText, <<"a">>, <<"b">>}
KeywordTexts == {<<"a">>, <<"A">>, <<"b">>, <<"a", "b">>}
KeywordLists == SeqsUpTo(KeywordTexts, MaxKeywords)

ScoreArgs == [call : {"score_short_answer"},
              student_answer : StudentAnswers,
              model_answer : ModelAnswers,
              rubric_keywords : KeywordLists]

\* an empty database: only the call's arguments vary
InitScore ==
    /\ submissions = <<>>
    /\ responses = <<>>
    /\ last = [op |-> "none", status |-> 0, body |-> ""]
    /\ questions = QuestionTable(NoText)
    /\ lessons = <<>>
    /\ args \in ScoreArgs
    /\ InitEmb

\* the call, with what the environment did to it: up, the embedding calls
\* succeeded
ScoreCall ==
    /\ args.call = "score_short_answer"
    /\ \E up \in BOOLEAN, falcon \in BOOLEAN :
          /\ last' = [op |-> "score", status |-> 200,
                      body |-> ScoreShortAnswer(args.student_answer,
                                                args.model_answer,
                                                args.rubric_keywords,
                                                up, falcon)]
          /\ args' = [call |-> "score_short_answer",
                      student_answer |-> args.student_answer,
                      model_answer |-> args.model_answer,
                      rubric_keywords |-> args.rubric_keywords,
                      up |-> up]
    /\ UNCHANGED <<submissions, responses, questions, lessons, embvars>>

\* keyword_coverage called on the answer and the rubric keywords
CoverageCall ==
    /\ args.call = "score_short_answer"
    /\ last' = [op |-> "keyword_coverage", status |-> 200,
                body |-> KeywordCoverage(args.student_answer,
                                         args.rubric_keywords)]
    /\ UNCHANGED <<submissions, responses, questions, lessons, args, embvars>>

NextScore == ScoreCall \/ CoverageCall

SpecScore == InitScore /\ [][NextScore]_vars

(* ------------------- specification: the ranker ------------------------- *)
\* three short-answer questions of assignment 1, one tag each
RankQuestionTable ==
    [q \in 1..3 |-> [assignment_id |-> 1, type |-> "short",
                     prompt |-> <<"a">>, answer_key |-> NoText,
                     skill_tags |-> <<(<<"w", "m", "f">>)[q]>>]]

\* student 1 has answered them and the teacher has scored each answer
RankSubmissions ==
    <<[assignment_id |-> 1, student_id |-> 1, submitted_at |-> Now,
       ai_score |-> NoScore, teacher_score |-> NoScore,
       ai_explanation |-> NoCount]>>

RankResponses(m_score) ==
    [q \in 1..3 |-> [submission_id |-> 1, question_id |-> q,
                     student_answer |-> <<"a", "b">>,
                     ai_score |-> NoScore,
                     teacher_score |-> (<<RatOfInt(10), m_score,
                                          RatOfInt(100)>>)[q]]]

\* <<tag, pad, ..., pad>> with n pads
Padded(tag, pad, n) == <<tag>> \o [j \in 1..n |-> pad]

TagPads == {0, MaxPad - 2, MaxPad}

\* lesson rows a class may hold
LessonKinds ==
    {[class_id |-> 1, skill_tags |-> <<"m">>, embedding |-> <<5, 0>>,
      content |-> <<"a">>],
     [class_id |-> 1, skill_tags |-> <<>>, embedding |-> NoVec,
      content |-> <<"b">>],
     [class_id |-> 1, skill_tags |-> <<"x", "w">>, embedding |-> NoVec,
      content |-> <<"A">>],
     [class_id |-> 2, skill_tags |-> <<"m">>, embedding |-> <<5, 0>>,
      content |-> <<"a">>]}
    \cup {[class_id |-> 1, skill_tags |-> Padded("w", "f", n),
           embedding |-> <<5, 0>>, content |-> <<"a">>] : n \in TagPads}

InitRank ==
    /\ questions = RankQuestionTable
    /\ submissions = RankSubmissions
    /\ responses \in {RankResponses(m) : m \in {RatOfInt(90), RatOfInt(50)}}
    /\ lessons \in SeqsUpTo(LessonKinds, MaxLessons)
    /\ last = [op |-> "none", status |-> 0, body |-> ""]
    /\ args = NoArgs
    /\ InitEmb

\* the ranker only reads the database: a second request would see what the
\* first saw, so one request is served per behaviour
Recommend ==
    /\ last.op = "none"
    /\ \E user \in DOMAIN Users, class_id \in {1, 3}, student_id \in 0..2,
          k \in 0..2 :
        \E failing \in SUBSET {i \in 1..Len(lessons) :
                                 lessons[i].embedding = NoVec} :
            GetRecommendations(user, class_id, student_id, k, failing)

NextRank == Recommend

SpecRank == InitRank /\ [][NextRank]_vars

(* ------------------ specification: the insights ------------------------ *)
\* assignment 1 of class 1: a short question on topic A, one on topic B
\* and a multiple-choice question
InsightQuestionTable ==
    [q \in 1..3 |->
        CASE q = 1 -> [assignment_id |-> 1, type |-> "short",
                       prompt |-> <<"a">>, answer_key |-> NoText,
                       skill_tags |-> <<"ta">>]
          [] q = 2 -> [assignment_id |-> 1, type |-> "short",
                       prompt |-> <<"b">>, answer_key |-> NoText,
                       skill_tags |-> <<"tb">>]
          [] q = 3 -> [assignment_id |-> 1, type |-> "mcq",
                       prompt |-> <<"B">>, answer_key |-> JsonDumps(<<"a">>),
                       skill_tags |-> <<"ta", "tb">>]]

\* student 1's submission of assignment 1, made `age` days ago
InsightSubmissions(age) ==
    <<[assignment_id |-> 1, student_id |-> 1, submitted_at |-> Now - age,
       ai_score |-> NoScore, teacher_score |-> NoScore,
       ai_explanation |-> NoCount]>>

ResponseRow(q, answer, ai, teacher) ==
    [submission_id |-> 1, question_id |-> q, student_answer |-> answer,
     ai_score |-> ai, teacher_score |-> teacher]

\* n answers to question q, each scored 0.2 by the teacher
GroupRows(q, answer, n) ==
    [j \in 1..n |-> ResponseRow(q, answer, NoScore, Rat(1, 5))]

\* rows that must stay out of the analysis
NoiseRows ==
    <<ResponseRow(3, <<"a">>, RatOfInt(100), NoScore),
      ResponseRow(1, <<"a", "a", "b">>, NoScore, NoScore),
      ResponseRow(3, <<"b">>, Zero, RatOfInt(100)),
      ResponseRow(1, <<"a", "a", "b">>, NoScore, Rat(7, 10)),
      ResponseRow(2, <<"b", "b", "a">>, NoScore, RatOfInt(50))>>

InsightResponses(na, nb, wrong_mcq, overridden, noise) ==
    GroupRows(1, <<"a", "a", "b">>, na)
    \o (IF noise THEN NoiseRows ELSE <<>>)
    \o GroupRows(2, <<"b", "b", "a">>, nb)
    \o (IF wrong_mcq THEN <<ResponseRow(3, <<"b">>, Zero, NoScore)>>
        ELSE <<>>)
    \o (IF overridden
        THEN <<ResponseRow(3, <<"a">>, RatOfInt(100), Rat(1, 2))>>
        ELSE <<>>)

InitInsights ==
    /\ questions = InsightQuestionTable
    /\ submissions \in {InsightSubmissions(age) : age \in {0, 10, 40}}
    /\ responses \in {InsightResponses(na, nb, w, o, z) :
                         na \in 0..MaxGroup, nb \in 0..MaxGroup,
                         w \in BOOLEAN, o \in BOOLEAN, z \in BOOLEAN}
    /\ lessons = <<>>
    /\ last = [op |-> "none", status |-> 0, body |-> ""]
    /\ args = NoArgs
    /\ InitEmb

\* requests the route turns down before it calls the service
InsightsRejected(user, class_id, period) ==
    \/ Users[user].role # "teacher"
    \/ class_id \notin DOMAIN Classes
    \/ Classes[class_id].teacher_id # user
    \/ period \notin {"week", "month"}

\* embed_text may fail for no text, for any one text, or for all of them
FailureSets(class_id, period) ==
    LET rds == GetLowScoringResponses(class_id, period)
        ids == {rds[j].response_id : j \in 1..Len(rds)}
    IN {S \in SUBSET ids : Cardinality(S) <= 1 \/ S = ids}

\* the insights only read the database: one request per behaviour
Insights ==
    /\ last.op = "none"
    /\ \E user \in DOMAIN Users, class_id \in 1..3,
          period \in {"week", "month", "year"} :
         IF InsightsRejected(user, class_id, period)
         THEN GetMisconceptionInsightsApi(user, class_id, period, {}, TRUE,
                                          <<>>)
         ELSE \E failing \in FailureSets(class_id, period) :
                \E f \in LabelChoices(class_id, period, failing) :
                  \E kmeans_ok \in (IF f = <<>> THEN {TRUE} ELSE BOOLEAN) :
                    GetMisconceptionInsightsApi(user, class_id, period,
                                                failing, kmeans_ok, f)

NextInsights == Insights

SpecInsights == InitInsights /\ [][NextInsights]_vars

(* ------------- specification: requests and their replies --------------- *)
\* the answers a submit request may carry: a right and a wrong answer to
\* the multiple-choice question 1, an answer to question 2, and an answer to
\* question 3, which belongs to another assignment
RequestItems ==
    {[question_id |-> 1, answer |-> <<"a">>],
     [question_id |-> 1, answer |-> <<"b">>],
     [question_id |-> 2, answer |-> <<"a", "b">>],
     [question_id |-> 3, answer |-> <<"a", "b">>]}

RequestLists == SeqsUpTo(RequestItems, MaxItems)

\* the scores an override request may carry: 0.5, the 1.5 and -0.1 of
\* test_override_validation, 100 and 101
RequestScores ==
    {Rat(1, 2), Rat(3, 2), Rat(-1, 10), RatOfInt(100), RatOfInt(101)}

InitRequests ==
    /\ submissions = <<>>
    /\ responses = <<>>
    /\ last = [op |-> "none", status |-> 0, body |-> ""]
    /\ questions = QuestionTable(JsonDumps(<<"a">>))
    /\ lessons = <<>>
    /\ args = NoArgs
    /\ InitEmb

\* POST /assignments/{aid}/submit, the request kept beside its reply
SubmitRequest ==
    \E user \in DOMAIN Users, aid \in 1..3 :
        \E answers \in (IF RejectedEarly(user, aid) THEN {<<>>}
                        ELSE RequestLists) :
            /\ SubmitAssignment(user, aid, answers)
            /\ args' = [call |-> "submit_assignment", user |-> user,
                        id |-> aid, answers |-> answers, score |-> NoScore]

\* POST /responses/{rid}/override, the request kept beside its reply
OverrideRequest ==
    \E user \in {1, 3, 4}, rid \in 1..(Len(responses) + 1),
       score \in RequestScores :
        /\ OverrideResponseScore(user, rid, score)
        /\ args' = [call |-> "override_response_score", user |-> user,
                    id |-> rid, answers |-> <<>>, score |-> score]

NextRequests == SubmitRequest \/ OverrideRequest

SpecRequests == InitRequests /\ [][NextRequests]_vars

(* --------------- specification: the three analytics -------------------- *)
\* lesson rows of class 1, with and without a stored embedding
AnalyticsLessons ==
    {[class_id |-> 1, skill_tags |-> <<"ta">>, embedding |-> <<5, 0>>,
      content |-> <<"a">>],
     [class_id |-> 1, skill_tags |-> <<"tb">>, embedding |-> NoVec,
      content |-> <<"b">>]}

\* a class with answers on both topics and up to two lessons
InitAnalytics ==
    /\ questions = InsightQuestionTable
    /\ submissions = InsightSubmissions(0)
    /\ responses \in {InsightResponses(3, nb, TRUE, TRUE, TRUE) :
                         nb \in {0, 3}}
    /\ lessons \in SeqsUpTo(AnalyticsLessons, 2)
    /\ last = [op |-> "none", status |-> 0, body |-> ""]
    /\ args = NoArgs
    /\ InitEmb

\* the class's teacher asks for the misconception clusters
ClusterMisconceptions ==
    \E class_id \in 1..2, period \in {"week", "month"} :
        \E failing \in FailureSets(class_id, period) :
            \E f \in LabelChoices(class_id, period, failing) :
                \E kmeans_ok \in (IF f = <<>> THEN {TRUE} ELSE BOOLEAN) :
                    GetMisconceptionInsightsApi(Classes[class_id].teacher_id,
                                                class_id, period, failing,
                                                kmeans_ok, f)

\* get_student_skill_mastery called for a class and a student
SkillMastery ==
    \E class_id \in 1..2, student_id \in Students :
        /\ last' = [op |-> "skill_mastery", status |-> 200,
                    body |-> GetStudentSkillMastery(class_id, student_id)]
        /\ args' = [call |-> "get_student_skill_mastery",
                    class_id |-> class_id, student_id |-> student_id]
        /\ UNCHANGED <<submissions, responses, questions, lessons, embvars>>

\* student 1 asks for recommendations in class 1
RankLessons ==
    \E k \in 1..2 :
        \E failing \in SUBSET {i \in 1..Len(lessons) :
                                 lessons[i].embedding = NoVec} :
            GetRecommendations(1, 1, 1, k, failing)

NextAnalytics == ClusterMisconceptions \/ SkillMastery \/ RankLessons

SpecAnalytics == InitAnalytics /\ [][NextAnalytics]_vars

(* ------- specification: submit requests handled side by side ----------- *)
\* Server processes 1..NumThreads share the database. Each runs
\* submit_assignment in three steps, separated by its two commits: the
\* checks of lines 130-153, the insertion of the Submission row (156-163)
\* and the answer loop with the final commit (165-237). Inside one process
\* the handler has no await, so the steps of one request only interleave
\* with those of a request in another process.
WorkerLists == {<<>>} \cup {<<it>> : it \in RequestItems}

InitWorkers ==
    /\ submissions = <<>>
    /\ responses = <<>>
    /\ last = [op |-> "none", status |-> 0, body |-> ""]
    /\ questions = QuestionTable(JsonDumps(<<"a">>))
    /\ lessons = <<>>
    /\ args = [t \in 1..NumThreads |-> NoArgs]
    /\ InitEmb

\* lines 130-153: the role, assignment, enrollment and duplicate checks
SubmitCheck(t) ==
    /\ pc[t] = "idle"
    /\ \E user \in DOMAIN Users, aid \in 1..3 :
         \E answers \in (IF RejectedEarly(user, aid) THEN {<<>>}
                         ELSE WorkerLists) :
           IF Users[user].role # "student"
           THEN /\ last' = Reject(403, "Only students can submit assignments")
                /\ UNCHANGED <<args, pc>>
           ELSE IF aid \notin DOMAIN Assignments
           THEN /\ last' = Reject(404, "Assignment not found")
                /\ UNCHANGED <<args, pc>>
           ELSE IF ~Enrolled(user, Assignments[aid].class_id)
           THEN /\ last' = Reject(403, "Access denied")
                /\ UNCHANGED <<args, pc>>
           ELSE IF ExistingSubmission(aid, user)
           THEN /\ last' = Reject(400, "Assignment already submitted")
                /\ UNCHANGED <<args, pc>>
           ELSE /\ args' = [args EXCEPT
                               ![t] = [call |-> "submit_assignment",
                                       user |-> user, id |-> aid,
                                       answers |-> answers, sid |-> 0]]
                /\ pc' = [pc EXCEPT ![t] = "checked"]
                /\ UNCHANGED last
    /\ UNCHANGED <<submissions, responses, questions, lessons, model,
                   constructed, calls, surfaced>>

\* lines 156-163: the Submission row is added and committed
SubmitCommit(t) ==
    /\ pc[t] = "checked"
    /\ submissions' = Append(submissions,
                          [assignment_id |-> args[t].id,
                           student_id |-> args[t].user,
                           submitted_at |-> Now,
                           ai_score |-> NoScore, teacher_score |-> NoScore,
                           ai_explanation |-> NoCount])
    /\ args' = [args EXCEPT ![t].sid = Len(submissions) + 1]
    /\ pc' = [pc EXCEPT ![t] = "committed"]
    /\ UNCHANGED <<responses, last, questions, lessons, model, constructed,
                   calls, surfaced>>

\* lines 165-237: the answer loop, the overall score and the second commit
SubmitGrade(t) ==
    /\ pc[t] = "committed"
    /\ LET sid == args[t].sid
           acc == GradeLoop(sid, args[t].answers, 1,
                    [total |-> Zero, scored_questions |-> 0,
                     breakdown |-> <<>>, rows |-> <<>>])
       IN IF FirstBad(args[t].id, args[t].answers) # 0
          THEN /\ last' = Reject(400, "Question not found in assignment")
               /\ UNCHANGED <<submissions, responses>>
          ELSE /\ submissions' =
                     IF acc.scored_questions > 0
                     THEN [submissions EXCEPT
                             ![sid].ai_score = SubmissionScore(acc),
                             ![sid].ai_explanation = acc.scored_questions]
                     ELSE submissions
               /\ responses' = responses \o acc.rows
               /\ last' = [op |-> "submit", status |-> 200,
                           body |-> [submission_id |-> sid,
                                     ai_score |-> submissions'[sid].ai_score,
                                     breakdown |-> acc.breakdown]]
    /\ args' = [args EXCEPT ![t] = NoArgs]
    /\ pc' = [pc EXCEPT ![t] = "idle"]
    /\ UNCHANGED <<questions, lessons, model, constructed, calls, surfaced>>

NextWorkers ==
    \E t \in 1..NumThreads :
        \/ SubmitCheck(t)
        \/ SubmitCommit(t)
        \/ SubmitGrade(t)

SpecWorkers == InitWorkers /\ [][NextWorkers]_vars

(* ------------------------------ claims --------------------------------- *)
\* C1: however many callers find the model unloaded at the same time, the
\* embedding model is constructed at most once in the process.
C1_ConstructedAtMostOnce == constructed <= 1

\* C2: a step never changes the ai_score (or any field other than
\* teacher_score) of an existing response or submission, so after any
\* sequence of overrides the automated score is what it was before the first.
C2_OverrideKeepsAiScore ==
    [][/\ Len(responses') >= Len(responses)
       /\ Len(submissions') >= Len(submissions)
       /\ \A i \in 1..Len(responses) :
            responses'[i] = [responses[i] EXCEPT
                               !.teacher_score = responses'[i].teacher_score]
       /\ \A i \in 1..Len(submissions) :
            submissions'[i] = [submissions[i] EXCEPT
                               !.teacher_score = submissions'[i].teacher_score]
      ]_vars

\* C2 witness: a response override was just committed, a response carries
\* an automated score next to a different override, and so does a submission
C2_Witness ==
    /\ last.op = "override_response"
    /\ \E i \in 1..Len(responses) :
          /\ responses[i].ai_score # NoScore
          /\ responses[i].teacher_score # NoScore
          /\ responses[i].teacher_score # responses[i].ai_score
    /\ \E i \in 1..Len(submissions) :
          /\ submissions[i].teacher_score # NoScore
          /\ submissions[i].ai_score # NoScore

InUnit(x) == RatLE(Zero, x) /\ RatLE(x, One)

\* C3: every per-tag mastery and the overall average returned by
\* skill_mastery lie in [0, 1] in every stored state that submissions and
\* accepted overrides can produce.
C3_MasteryInUnitInterval ==
    \A c \in DOMAIN Classes, u \in Students :
        LET res == GetStudentSkillMastery(c, u)
        IN /\ InUnit(res.overall_mastery_avg)
           /\ \A k \in 1..Len(res.skill_mastery) :
                 InUnit(res.skill_mastery[k].mastery)

\* case/whitespace normalisation of an option text
Normalise(t) == LET u == RStrip(LStrip(t)) IN [k \in 1..Len(u) |-> Lower(u[k])]

HasKey(q) == q.answer_key # NoText /\ JsonLoads(q.answer_key) # JsonError

\* C4: an MCQ response stored by submission processing has score 1.0 when
\* the submitted option equals the answer key after case/whitespace
\* normalisation and 0.0 when it does not.
C4_McqScoreNormalised ==
    \A i \in 1..Len(responses) :
        LET r == responses[i]
            q == questions[r.question_id]
        IN (q.type = "mcq" /\ HasKey(q)) =>
              r.ai_score = IF Normalise(r.student_answer)
                              = Normalise(JsonLoads(q.answer_key))
                           THEN One ELSE Zero

\* the automated scores of a submission's MCQ responses, in row order
McqScores(sid) ==
    LET rows == SelectSeq(responses,
                  LAMBDA r : /\ r.submission_id = sid
                             /\ questions[r.question_id].type = "mcq"
                             /\ r.ai_score # NoScore)
    IN [k \in 1..Len(rows) |-> rows[k].ai_score]

\* C5: a submission's automated score is the mean of the automated scores
\* of its MCQ responses, short answers never count, and it is null when no
\* MCQ response was scored.
C5_SubmissionScoreIsMcqMean ==
    \A sid \in 1..Len(submissions) :
        IF McqScores(sid) = <<>>
        THEN submissions[sid].ai_score = NoScore
        ELSE submissions[sid].ai_score = Mean(McqScores(sid))

\* C5 witness: a submission holding a correct MCQ response next to a
\* short-answer response, scored 100, and one with no scored MCQ at all
C5_Witness ==
    \E sid \in 1..Len(submissions) :
        /\ McqScores(sid) = <<RatOfInt(100)>>
        /\ \E i \in 1..Len(responses) :
              /\ responses[i].submission_id = sid
              /\ questions[responses[i].question_id].type = "short"
        /\ submissions[sid].ai_score = RatOfInt(100)

\* C6: in the reply to a submission, the entry of a short-answer response
\* whose question has no model answer has a null score, the explanation
\* "Model/rubric missing" and no matched keywords, and the response is left
\* out of the submission's automated score.
C6_MissingModelAnswerEntry ==
    (last.op = "submit" /\ last.status = 200) =>
        \A k \in 1..Len(last.body.breakdown) :
            LET e == last.body.breakdown[k]
                q == questions[e.question_id]
            IN (q.type = "short" /\ q.answer_key = NoText) =>
                  /\ e.score = NoScore
                  /\ "ai_feedback" \in DOMAIN e
                  /\ e.ai_feedback = "Model/rubric missing"
                  /\ "matched_keywords" \in DOMAIN e
                  /\ e.matched_keywords = <<>>
                  /\ last.body.ai_score
                        = submissions[last.body.submission_id].ai_score
                  /\ C5_SubmissionScoreIsMcqMean

\* the (response, tag) contributions counted straight from the rows
RECURSIVE PairSum(_, _)
PairSum(resp, ids) ==
    IF ids = <<>> THEN Zero
    ELSE LET r == resp[Head(ids)]
             sc == ResponseScore(r)
             n == Len(questions[r.question_id].skill_tags)
         IN IF sc = NoScore THEN PairSum(resp, Tail(ids))
            ELSE RatAdd(Rat(sc.n * n, sc.d), PairSum(resp, Tail(ids)))

RECURSIVE PairCount(_, _)
PairCount(resp, ids) ==
    IF ids = <<>> THEN 0
    ELSE LET r == resp[Head(ids)]
         IN (IF ResponseScore(r) = NoScore THEN 0
             ELSE Len(questions[r.question_id].skill_tags))
            + PairCount(resp, Tail(ids))

\* C7: overall_mastery_avg is the mean over all (response, tag)
\* contributions, a response with N tags counting N times.
C7_OverallIsMeanOfContributions ==
    \A c \in DOMAIN Classes, u \in Students :
        LET ids == StudentClassRows(responses, submissions, c, u)
            n == PairCount(responses, ids)
        IN n > 0 =>
             GetStudentSkillMastery(c, u).overall_mastery_avg
                = Round3(RatDivInt(PairSum(responses, ids), n))

\* mean of the per-tag masteries, the quantity the overall average is not
MeanOfTagMeans(c, u) ==
    LET sm == GetStudentSkillMastery(c, u).skill_mastery
    IN Round3(Mean([k \in 1..Len(sm) |-> sm[k].mastery]))

\* C7 witness: two tags with different sample counts, where the overall
\* average differs from the mean of the per-tag masteries
C7_Witness ==
    LET res == GetStudentSkillMastery(1, 1)
    IN /\ Len(res.skill_mastery) = 2
       /\ res.skill_mastery[1].samples # res.skill_mastery[2].samples
       /\ res.overall_mastery_avg # MeanOfTagMeans(1, 1)

\* responses of the student in the class that carry a score
ScoredResponseCount(c, u) ==
    LET ids == StudentClassRows(responses, submissions, c, u)
    IN Len(SelectSeq(ids, LAMBDA i : ResponseScore(responses[i]) # NoScore))

\* C8: total_responses is the number of the student's scored responses in
\* the class, each counted once whatever the number of tags.
C8_TotalResponsesCountsResponses ==
    \A c \in DOMAIN Classes, u \in Students :
        GetStudentSkillMastery(c, u).total_responses
            = ScoredResponseCount(c, u)

\* the stored rows with every override moved into the automated score
OverrideAsScore(rows) ==
    [i \in 1..Len(rows) |->
        IF rows[i].teacher_score # NoScore
        THEN [rows[i] EXCEPT !.ai_score = rows[i].teacher_score,
                             !.teacher_score = NoScore]
        ELSE rows[i]]

\* C9: where a teacher override is set, skill mastery and the gradebook
\* export take the override, not the automated score, as the record's
\* score: both give what they would give if the override were the only
\* score on the record.
C9_OverridePreferred ==
    /\ \A c \in DOMAIN Classes, u \in Students :
          SkillMasteryOn(responses, submissions, c, u)
             = SkillMasteryOn(OverrideAsScore(responses), submissions, c, u)
    /\ \A c \in DOMAIN Classes :
          LET rows == ExportGradebookCsv(c)
          IN \A k \in 1..Len(rows) :
                rows[k].teacher_score # NoScore
                   => rows[k].final_score = rows[k].teacher_score

\* C9 witness: an overridden response whose automated score alone would
\* count differently, and an overridden submission with an automated score
C9_Witness ==
    /\ \E i \in 1..Len(responses) :
          /\ responses[i].teacher_score # NoScore
          /\ responses[i].ai_score # NoScore
          /\ ResponseScore(responses[i])
                # ResponseScore([responses[i] EXCEPT
                                     !.teacher_score = NoScore])
    /\ \E k \in 1..Len(ExportGradebookCsv(1)) :
          /\ ExportGradebookCsv(1)[k].teacher_score # NoScore
          /\ ExportGradebookCsv(1)[k].ai_score # NoScore
          /\ ExportGradebookCsv(1)[k].ai_score
                # ExportGradebookCsv(1)[k].teacher_score

\* C10: the per-tag mastery map the ranker computes for a student equals
\* the per-tag masteries skill_mastery returns for the student and class.
C10_RankerMasteryEqualsAggregator ==
    \A c \in DOMAIN Classes, u \in Students :
        Enrolled(u, c) =>
            LET sm == GetStudentSkillMastery(c, u).skill_mastery
                rk == ComputeSkillMastery(u)
            IN /\ DOMAIN rk = {sm[k].tag : k \in 1..Len(sm)}
               /\ \A k \in 1..Len(sm) : rk[sm[k].tag] = sm[k].mastery

\* C19: for every student answer, model answer and keyword list, the
\* scorer's result has 0 <= score <= 1 and 0 <= confidence <= 1.
C19_ScoreAndConfidenceInUnit ==
    last.op = "score" =>
        /\ InUnit(last.body.score)
        /\ InUnit(last.body.confidence)

\* C19 witness: a scored answer whose embedding points away from the model
\* answer's (negative dot product), and whose keywords are all matched
C19_Witness ==
    /\ last.op = "score"
    /\ Strip(args.student_answer) # <<>>
    /\ Strip(args.model_answer) # <<>>
    /\ RatLT(Dot(Encode(args.student_answer), Encode(args.model_answer)),
             Zero)
    /\ last.body.confidence = Rat(1, 2)
    /\ last.body.score = Rat(3, 10)

\* the rubric keywords, as distinct strings, found in the answer
DistinctMatched(answer, keywords) ==
    {keywords[k] : k \in {j \in 1..Len(keywords) :
                            Contains(StrLower(keywords[j]), StrLower(answer))}}

\* C20: keyword_coverage is the number of distinct rubric keywords that
\* occur in the answer as case-insensitive substrings divided by the number
\* of rubric keywords, and 0.0 when the keyword list is empty.
C20_CoverageCountsDistinctKeywords ==
    last.op = "keyword_coverage" =>
        last.body
           = IF args.rubric_keywords = <<>> THEN Zero
             ELSE Rat(Cardinality(DistinctMatched(args.student_answer,
                                                  args.rubric_keywords)),
                      Len(args.rubric_keywords))

\* the reply to an accepted recommendations request
Recommended == last.op = "recommend" /\ last.status = 200

\* position of a lesson in the returned list, 0 when it is not returned
RankOf(recs, lesson_id) ==
    LET at == {i \in 1..Len(recs) : recs[i].lesson_id = lesson_id}
    IN IF at = {} THEN 0 ELSE CHOOSE i \in at : TRUE

\* lesson a is returned ahead of lesson b, or returned when b is cut off
RanksAbove(recs, a, b) ==
    /\ RankOf(recs, a) > 0
    /\ RankOf(recs, b) = 0 \/ RankOf(recs, a) < RankOf(recs, b)

\* the student's mastery of a tag as the reply reports it
ReportedMastery(tag) == MasteryGet(last.body.data.skill_mastery, tag)

AllTagsMastered(i) ==
    /\ lessons[i].skill_tags # <<>>
    /\ \A j \in 1..Len(lessons[i].skill_tags) :
          RatGE(ReportedMastery(lessons[i].skill_tags[j]), Rat(9, 10))

AddressesWeakTag(i) ==
    \E j \in 1..Len(lessons[i].skill_tags) :
        ReportedMastery(lessons[i].skill_tags[j]) = Rat(1, 10)

\* two lessons of the requested class that differ in their tags only
AllElseEqual(a, b) ==
    /\ a # b
    /\ lessons[a].class_id = args.class_id
    /\ lessons[b].class_id = args.class_id
    /\ lessons[a].embedding # NoVec
    /\ lessons[a].embedding = lessons[b].embedding

\* C11 as stated: all else equal, a lesson whose tags all have mastery at
\* least 0.9 never ranks above a lesson that addresses a tag with mastery
\* 0.1.
C11_MasteredNeverAboveWeak ==
    Recommended =>
        \A a, b \in 1..Len(lessons) :
            (AllElseEqual(a, b) /\ AllTagsMastered(a) /\ AddressesWeakTag(b))
               => ~RanksAbove(last.body.data.recommendations, a, b)

\* C11 as amended: all else equal, a lesson whose tags all have mastery at
\* least 0.9 never ranks above a lesson with at most 8 tags that addresses
\* a tag with mastery 0.1.
C11_MasteredNeverAboveWeakUpTo8Tags ==
    Recommended =>
        \A a, b \in 1..Len(lessons) :
            (/\ AllElseEqual(a, b)
             /\ AllTagsMastered(a)
             /\ AddressesWeakTag(b)
             /\ Len(lessons[b].skill_tags) <= 8)
               => ~RanksAbove(last.body.data.recommendations, a, b)

\* C11 witness: a mastered lesson stored ahead of an eight-tag lesson with
\* a weak tag, same embedding, and the weak one is returned first
C11_Witness ==
    /\ Recommended
    /\ \E a, b \in 1..Len(lessons) :
          /\ a < b
          /\ AllElseEqual(a, b)
          /\ AllTagsMastered(a)
          /\ AddressesWeakTag(b)
          /\ Len(lessons[b].skill_tags) = 8
          /\ RanksAbove(last.body.data.recommendations, b, a)
          /\ RankOf(last.body.data.recommendations, a) > 0

\* C12: the ranker returns at most k items, ordered non-increasing by
\* combined score.
C12_AtMostKNonIncreasing ==
    Recommended =>
        LET recs == last.body.data.recommendations
        IN /\ Len(recs) <= args.k
           /\ \A i \in 1..(Len(recs) - 1) :
                 RatGE(recs[i].score, recs[i + 1].score)

\* C12 witness: three tagged candidates, k = 2, and the two returned are in
\* strictly decreasing score order although stored the other way round
C12_Witness ==
    /\ Recommended
    /\ args.k = 2
    /\ Len(SelectSeq(CandidateLessons(args.class_id),
                     LAMBDA i : lessons[i].skill_tags # <<>>)) = 3
    /\ LET recs == last.body.data.recommendations
       IN /\ Len(recs) = 2
          /\ RatLT(recs[2].score, recs[1].score)
          /\ recs[2].lesson_id < recs[1].lesson_id

\* the student a recommendations request is about
TargetStudent == IF args.student_id # 0 THEN args.student_id ELSE args.user

\* C18: a recommendations request for a student who is not enrolled in the
\* class ends in an error reply (the route raises), never in a result.
C18_NotEnrolledIsRejected ==
    (args # NoArgs /\ args.call = "get_recommendations"
       /\ ~Enrolled(TargetStudent, args.class_id))
        => (last.op = "error" /\ last.status \in {403, 404, 422})

\* C18 witness: the class's teacher asked for a student who is not
\* enrolled in it and got 404
C18_Witness ==
    /\ args # NoArgs
    /\ args.call = "get_recommendations"
    /\ args.user = 3
    /\ args.class_id = 1
    /\ args.student_id = 2
    /\ args.k = 2
    /\ last.op = "error"
    /\ last.status = 404


(* ------------------------- insights: claims ---------------------------- *)
InsightsCall == args.call = "get_misconception_insights"

\* the request passes the route's role, ownership and period checks
InsightsAdmitted ==
    /\ InsightsCall
    /\ Users[args.user].role = "teacher"
    /\ args.class_id \in DOMAIN Classes
    /\ Classes[args.class_id].teacher_id = args.user
    /\ args.period \in {"week", "month"}

InsightsServed == last.op = "insights" /\ last.status = 200

\* the claim's side of the inclusion rule, read off the stored rows
HasEffectiveScore(i) ==
    responses[i].teacher_score # NoScore \/ responses[i].ai_score # NoScore

OverrideElseAutomated(i) ==
    IF responses[i].teacher_score # NoScore THEN responses[i].teacher_score
    ELSE responses[i].ai_score

Qualifies(i) ==
    /\ HasEffectiveScore(i)
    /\ \/ /\ questions[responses[i].question_id].type = "mcq"
          /\ RatLT(OverrideElseAutomated(i), One)
       \/ /\ questions[responses[i].question_id].type = "short"
          /\ RatLT(OverrideElseAutomated(i), Rat(7, 10))

InRequestedWindow(i) ==
    LET sub == submissions[responses[i].submission_id]
        days == IF args.period = "month" THEN 30 ELSE 7
    IN /\ Assignments[sub.assignment_id].class_id = args.class_id
       /\ sub.submitted_at >= Now - days
       /\ sub.submitted_at <= Now

QualifyingIds == {i \in 1..Len(responses) : InRequestedWindow(i) /\ Qualifies(i)}

EmbeddedIds == QualifyingIds \ args.failing

AnalysedIds ==
    LET rds == GetLowScoringResponses(args.class_id, args.period)
    IN {rds[j].response_id : j \in 1..Len(rds)}

\* C13: an admitted request over fewer than 3 qualifying responses is
\* answered normally, with no clusters, a non-empty message, and total_items
\* equal to the number of qualifying responses.
C13_FewerThanThreeGivesMessage ==
    (InsightsAdmitted /\ Cardinality(QualifyingIds) < 3)
       => /\ InsightsServed
          /\ last.body.insights.clusters = <<>>
          /\ "message" \in DOMAIN last.body.insights
          /\ last.body.insights.message # ""
          /\ last.body.insights.total_items = Cardinality(QualifyingIds)

C13_Witness ==
    /\ InsightsServed
    /\ Cardinality(QualifyingIds) = 2
    /\ last.body.insights.total_items = 2
    /\ "message" \in DOMAIN last.body.insights

\* the qualifying responses in S fall into the two topics, each present
Bimodal(S) ==
    /\ \A i \in S : responses[i].question_id \in {1, 2}
    /\ \E i \in S : responses[i].question_id = 1
    /\ \E i \in S : responses[i].question_id = 2

TwoClustersWithDifferingTags ==
    LET cl == last.body.insights.clusters
    IN /\ Len(cl) >= 2
       /\ \E a, b \in 1..Len(cl) :
             cl[a].suggested_skill_tags # cl[b].suggested_skill_tags

\* C14: given at least 3 clearly bimodal qualifying responses (all embedded,
\* k-means not failing), the reply has at least 2 clusters whose
\* suggested_skill_tags differ.
C14_BimodalGivesTwoClusters ==
    (/\ InsightsServed
     /\ Cardinality(QualifyingIds) >= 3
     /\ Bimodal(QualifyingIds)
     /\ args.failing = {}
     /\ args.kmeans_ok)
       => TwoClustersWithDifferingTags

\* C14 (amended): given at least 6 clearly bimodal qualifying responses (all
\* embedded, k-means not failing), the reply has at least 2 clusters whose
\* suggested_skill_tags differ.
C14_SixBimodalGiveTwoClusters ==
    (/\ InsightsServed
     /\ Cardinality(QualifyingIds) >= 6
     /\ Bimodal(QualifyingIds)
     /\ args.failing = {}
     /\ args.kmeans_ok)
       => TwoClustersWithDifferingTags

C14_Witness ==
    /\ InsightsServed
    /\ Cardinality(QualifyingIds) >= 6
    /\ Bimodal(QualifyingIds)
    /\ args.failing = {}
    /\ args.kmeans_ok
    /\ Len(last.body.insights.clusters) = 2
    /\ last.body.insights.clusters[1].suggested_skill_tags = <<"ta">>
    /\ last.body.insights.clusters[2].suggested_skill_tags = <<"tb">>

\* C15: the responses analysed are exactly those of the class and window
\* that have an effective score (override, else automated) and are either
\* MCQ answers scored below 1 or short answers scored below the pass
\* threshold; total_items counts them.
C15_AnalysedIffLowEffectiveScore ==
    InsightsServed
       => /\ AnalysedIds = QualifyingIds
          /\ last.body.insights.total_items = Cardinality(QualifyingIds)

\* an overridden MCQ answer is in, and unscored, passing and
\* overridden-to-correct answers are out
C15_Witness ==
    /\ InsightsServed
    /\ \E i \in AnalysedIds :
          /\ responses[i].ai_score = RatOfInt(100)
          /\ responses[i].teacher_score = Rat(1, 2)
    /\ \E i \in 1..Len(responses) :
          /\ i \notin AnalysedIds
          /\ InRequestedWindow(i)
          /\ ~HasEffectiveScore(i)
    /\ \E i \in 1..Len(responses) :
          /\ i \notin AnalysedIds
          /\ InRequestedWindow(i)
          /\ responses[i].ai_score = Zero
          /\ responses[i].teacher_score = RatOfInt(100)
    /\ \E i \in 1..Len(responses) :
          /\ i \notin AnalysedIds
          /\ InRequestedWindow(i)
          /\ responses[i].teacher_score = Rat(7, 10)

RECURSIVE ClusterSizeSum(_)
ClusterSizeSum(cl) ==
    IF cl = <<>> THEN 0 ELSE Head(cl).cluster_size + ClusterSizeSum(Tail(cl))

EmbeddingFailed == args.failing # {}
KMeansFailed == ~args.kmeans_ok

\* C16: if embedding or the k-means step fails for any reason, an admitted
\* request is answered normally with an empty cluster list.
C16_AnyFailureGivesNoClusters ==
    (InsightsAdmitted /\ (EmbeddingFailed \/ KMeansFailed))
       => /\ InsightsServed
          /\ last.body.insights.clusters = <<>>

\* C16 (amended): if embedding fails for so many qualifying texts that fewer
\* than 3 are embedded, or the k-means step fails, an admitted request is
\* answered with an empty cluster list; a failure on fewer texts only leaves
\* those texts out of the clusters; in no case does an exception propagate.
C16_FailureGivesNoClustersOrSkips ==
    InsightsAdmitted
       => /\ InsightsServed
          /\ (Cardinality(EmbeddedIds) < 3 \/ KMeansFailed)
                => last.body.insights.clusters = <<>>
          /\ (Cardinality(EmbeddedIds) >= 3 /\ ~KMeansFailed)
                => ClusterSizeSum(last.body.insights.clusters)
                      = Cardinality(EmbeddedIds)

\* one text fails, the others are clustered without it
C16_Witness ==
    /\ InsightsServed
    /\ Cardinality(args.failing) = 1
    /\ args.failing \subseteq QualifyingIds
    /\ Cardinality(EmbeddedIds) >= 3
    /\ last.body.insights.clusters # <<>>
    /\ ClusterSizeSum(last.body.insights.clusters) = Cardinality(EmbeddedIds)

\* the k-means step fails over enough embedded texts
C16_WitnessKMeans ==
    /\ InsightsServed
    /\ KMeansFailed
    /\ Cardinality(EmbeddedIds) >= 3
    /\ last.body.insights.clusters = <<>>

\* C17: a request whose period is neither "week" nor "month" is rejected
\* (422 once the caller is the class's teacher) and gets no analysis result.
C17_OtherPeriodIsRejected ==
    (InsightsCall /\ args.period \notin {"week", "month"})
       => /\ last.op = "error"
          /\ last.status \in {403, 404, 422}
          /\ (/\ Users[args.user].role = "teacher"
              /\ args.class_id \in DOMAIN Classes
              /\ Classes[args.class_id].teacher_id = args.user)
                => last.status = 422

C17_Witness ==
    /\ InsightsCall
    /\ args.period = "year"
    /\ args.user = 3
    /\ args.class_id = 1
    /\ last.op = "error"
    /\ last.status = 422


(* -------------------- scorer and embedding: claims --------------------- *)
\* the rubric keywords of the call, position by position, that occur in the
\* answer
MatchedPositions ==
    {j \in 1..Len(args.rubric_keywords) :
        Contains(StrLower(args.rubric_keywords[j]),
                 StrLower(args.student_answer))}

CoverageOfCall ==
    IF args.rubric_keywords = <<>> THEN Zero
    ELSE Rat(Cardinality(MatchedPositions), Len(args.rubric_keywords))

EmbeddingFailedInCall == "up" \in DOMAIN args /\ ~args.up

\* C21: if embedding fails while a non-empty answer is scored, the scorer
\* returns a result (it does not raise) whose score is
\* clip(0.3 * keyword_coverage, 0, 1): the semantic component counts as 0.
C21_EmbedFailureGivesKeywordOnlyScore ==
    (/\ last.op = "score"
     /\ EmbeddingFailedInCall
     /\ Strip(args.student_answer) # <<>>)
       => /\ "score" \in DOMAIN last.body
          /\ last.body.score
                = RatMax(Zero, RatMin(One, Rat(3 * CoverageOfCall.n,
                                               10 * CoverageOfCall.d)))

\* C21 witness: the answer would have been fully similar to the model
\* answer, one keyword of two is matched, and the score is 0.15
C21_Witness ==
    /\ last.op = "score"
    /\ EmbeddingFailedInCall
    /\ Strip(args.student_answer) # <<>>
    /\ Strip(args.model_answer) # <<>>
    /\ Encode(args.student_answer) = Encode(args.model_answer)
    /\ Len(args.rubric_keywords) = 2
    /\ Cardinality(MatchedPositions) = 1
    /\ last.body.score = Rat(3, 20)


\* C22: a call in which the construction of the model failed surfaces the
\* condition EmbeddingUnavailable to its caller, and a call that failed in
\* any other way surfaces a different one.
C22_ConstructionFailureIsEmbeddingUnavailable ==
    \A t \in 1..NumThreads :
        pc[t] = "raised" =>
            (surfaced[t].exception = "EmbeddingUnavailable"
                <=> surfaced[t].raised_by = "SentenceTransformer")


(* ----------------------- requests: claims ------------------------------ *)
SubmitCall == args.call = "submit_assignment"
OverrideCall == args.call = "override_response_score"

\* the request's student already has a Submission row for its assignment
HasSubmission(subs, aid, u) ==
    \E i \in 1..Len(subs) :
        subs[i].assignment_id = aid /\ subs[i].student_id = u

\* C23: a submit request by a student who already has a submission for the
\* assignment is answered 400 "Assignment already submitted" and adds no
\* Submission and no Response.
C23_SecondSubmitRejected ==
    [][(/\ args'.call = "submit_assignment"
        /\ HasSubmission(submissions, args'.id, args'.user))
          => /\ last'.status = 400
             /\ last'.body = "Assignment already submitted"
             /\ submissions' = submissions
             /\ responses' = responses]_vars

\* C23 witness: an accepted submission with responses, then the rejection
C23_Witness ==
    /\ SubmitCall
    /\ last.status = 400
    /\ last.body = "Assignment already submitted"
    /\ Len(submissions) = 1
    /\ Len(responses) >= 1
    /\ HasSubmission(submissions, args.id, args.user)

\* the override request comes from the teacher of the response's class
OverrideAdmitted(resp, subs, a) ==
    /\ a.call = "override_response_score"
    /\ Users[a.user].role = "teacher"
    /\ a.id \in 1..Len(resp)
    /\ Classes[Assignments[subs[resp[a.id].submission_id].assignment_id]
                  .class_id].teacher_id = a.user

\* C24: a response override whose teacher_score is outside [0, 1] is
\* answered 422 and leaves the response's teacher_score as it was.
C24_OverrideOutsideUnitRejected ==
    [][(/\ OverrideAdmitted(responses, submissions, args')
        /\ ~(RatLE(Zero, args'.score) /\ RatLE(args'.score, One)))
          => /\ last'.status = 422
             /\ responses' = responses]_vars

\* the first submit request of an enrolled student for an assignment
SubmitAdmitted ==
    /\ SubmitCall
    /\ Users[args.user].role = "student"
    /\ args.id \in DOMAIN Assignments
    /\ Enrolled(args.user, Assignments[args.id].class_id)

\* C25: a submit request with an empty answers list is answered 400.
C25_EmptyAnswersRejected ==
    (SubmitAdmitted /\ args.answers = <<>>) => last.status = 400

\* C27: a submit request rejected because an answer names a question
\* outside the assignment adds no Submission and no Response.
C27_RejectedSubmitPersistsNothing ==
    [][(/\ args'.call = "submit_assignment"
        /\ last'.status = 400
        /\ last'.body = "Question not found in assignment")
          => /\ submissions' = submissions
             /\ responses' = responses]_vars

\* C29: two Response rows of one submission never name the same question.
C29_OneResponsePerQuestion ==
    \A i, j \in 1..Len(responses) :
        (/\ i # j
         /\ responses[i].submission_id = responses[j].submission_id)
           => responses[i].question_id # responses[j].question_id


(* ----------------------- analytics: claims ----------------------------- *)
AnalyticsCalls ==
    {"get_misconception_insights", "get_student_skill_mastery",
     "get_recommendations"}

\* C26: a call of the clustering, the mastery aggregation or the ranker
\* leaves the question, response, submission and lesson rows as they were
\* (the enrollments are a fixed table here).
C26_AnalyticsLeaveEntitiesUnchanged ==
    [][args'.call \in AnalyticsCalls
          => UNCHANGED <<questions, responses, submissions, lessons>>]_vars

\* C26 witness: a ranking that had to generate the embedding of a lesson
\* stored without one
C26_Witness ==
    /\ args.call = "get_recommendations"
    /\ last.op = "recommend"
    /\ last.status = 200
    /\ \E i \in 1..Len(lessons) : lessons[i].embedding = NoVec
    /\ Len(responses) > 0


\* C30: in a non-empty clustering result no cluster is empty and the
\* cluster_size values sum to the number of embedded qualifying responses.
C30_ClustersPartitionEmbedded ==
    (InsightsServed /\ last.body.insights.clusters # <<>>)
       => LET cl == last.body.insights.clusters
          IN /\ \A c \in 1..Len(cl) : cl[c].cluster_size >= 1
             /\ ClusterSizeSum(cl) = Cardinality(EmbeddedIds)

\* C30 witness: a text was left out, and of the three clusters one is
\* larger than its example list
C30_Witness ==
    /\ InsightsServed
    /\ Len(last.body.insights.clusters) = 3
    /\ \E c \in 1..3 : last.body.insights.clusters[c].cluster_size >= 3
    /\ Cardinality(EmbeddedIds) < Cardinality(QualifyingIds)
    /\ ClusterSizeSum(last.body.insights.clusters) = Cardinality(EmbeddedIds)


(* ------------------- concurrent submits: claims ------------------------ *)
\* C28: whatever the interleaving of the submit requests, no two Submission
\* rows have the same assignment and the same student.
C28_OneSubmissionPerStudentAndAssignment ==
    \A i, j \in 1..Len(submissions) :
        (/\ submissions[i].assignment_id = submissions[j].assignment_id
         /\ submissions[i].student_id = submissions[j].student_id)
           => i = j

====
